---- MODULE Spec2Model ----
(***************************************************************************)
(* Model of the octopus story aggregator: the per-source enrichment        *)
(* pipelines (scripts/generate_story_summaries.py,                         *)
(* scripts/email_process_stories.py, scripts/telegram_process_stories.py), *)
(* the story analysis (processing/story_processor.py), the shared          *)
(* vocabulary operations (db/operations.py) and the context budgeter       *)
(* (processing/digest_context.py), the digest generation                   *)
(* (scripts/generate_tech_digest.py), the completion processor             *)
(* (genai/processor.py) and the content extractor                          *)
(* (processing/content_extractor.py).                                      *)
(*                                                                         *)
(* Texts are modelled by what the code looks at: their truthiness and      *)
(* their length.  Scores are integers in hundredths (0.5 is 50).           *)
(***************************************************************************)
EXTENDS Integers, Sequences, FiniteSets, TLC

\* ------------------------------------------------------------------ bounds
NumItems == 4
MaxRuns == 2
MaxRespTags == 1
MaxRespEntities == 2
MaxStories == 3
MaxDigestItems == 2
MaxMaxRetries == 2
MaxExtractRetries == 3
MaxResolutions == 3
MaxWww == 2
MaxIngestRuns == 2
MaxPages == 1
MaxPagedRuns == 2
MaxEnrichments == 2
MaxMessageId == 250

\* ------------------------------------------------------- program constants
REQUIRED_TAGS == <<"machine learning", "generative ai", "cybersecurity">>
valid_types == {"company", "product", "person", "framework"}
batch_size == 100
MIN_VOTES == 100
MAX_CONTEXT_TOKENS == 100000
CHARS_PER_TOKEN == 4
RELEVANT_TAGS ==
    {"artificial intelligence", "machine learning", "generative ai",
     "large language models", "cybersecurity", "computer vision",
     "natural language processing"}
MIN_TAG_SCORE == 30

None == "<None>"

\* ------------------------------------------------------------ raw tables
\* The raw items of the three sources (stories, email_stories,
\* telegram_stories), by related_item_type and primary key; the first
\* NumItems of them exist.
RawItems ==
    << [type |-> "hacker_news_story", id |-> 1, votes |-> 150],
       [type |-> "email_story", id |-> 1, votes |-> 0],
       [type |-> "telegram_story", id |-> 1, votes |-> 0],
       [type |-> "email_story", id |-> 2, votes |-> 0],
       [type |-> "hacker_news_story", id |-> 2, votes |-> 50],
       [type |-> "telegram_story", id |-> 2, votes |-> 0] >>

SourceTypes == {"hacker_news_story", "email_story", "telegram_story"}

Items == 1..NumItems

ItemType(i) == RawItems[i].type

ItemId(i) == RawItems[i].id

\* EmailStory.url, and the URL that extract_urls finds in a Telegram message
StoryUrl(i) == IF ItemId(i) = 1 THEN "https://a.example/1" ELSE "https://a.example/2"

\* latest StoryVotes.vote_count of a Hacker News story
vote_count(i) == RawItems[i].votes

\* extract_urls(story.content) of a Telegram story
extract_urls(i) == <<StoryUrl(i)>>

VARIABLES db, pc, run, now, llm, last, ctx, dg, gp, ex, cache, nu, ing, tx, race, pg, tg, raws

vars == <<db, pc, run, now, llm, last, ctx, dg, gp, ex, cache, nu, ing, tx, race, pg, tg, raws>>

\* ------------------------------------------------------------- sequences
RECURSIVE SeqsUpTo(_, _)
SeqsUpTo(S, n) ==
    IF n = 0 THEN {<<>>}
    ELSE LET shorter == SeqsUpTo(S, n - 1)
         IN shorter \cup {Append(s, x) : s \in {t \in shorter : Len(t) = n - 1}, x \in S}

Range(s) == {s[k] : k \in 1..Len(s)}

\* ------------------------------------------------- the model's completion
\* What one completion request brings back, as yaml.safe_load sees it:
\* a document with summary, tags and entities, a text that is no YAML,
\* or a connection error.  item.get(...) of an absent key is None.
NumScore(v) == [kind |-> "num", val |-> v]

RespTags ==
    { [name |-> "machine learning", score |-> 90],
      [name |-> "machine learning", score |-> 20],
      [name |-> "cybersecurity", score |-> 0],
      [name |-> "rust", score |-> 40] }

RespEntities ==
    { [name |-> "acme", type |-> "company", score |-> NumScore(70), context |-> "ctx"],
      [name |-> "zed", type |-> "product", score |-> NumScore(100), context |-> "ctx"],
      [name |-> "eve", type |-> "person", score |-> NumScore(0), context |-> "ctx"],
      [name |-> "acme", type |-> "city", score |-> NumScore(70), context |-> "ctx"],
      [name |-> "bob", type |-> "person", score |-> NumScore(150), context |-> "ctx"],
      [name |-> "bob", type |-> "person", score |-> NumScore(-10), context |-> "ctx"],
      [name |-> "bob", type |-> "person", score |-> [kind |-> "str", val |-> 0], context |-> "ctx"],
      [name |-> "bob", type |-> "person", score |-> NumScore(70), context |-> None],
      [name |-> None, type |-> "person", score |-> NumScore(70), context |-> "ctx"] }

CompletionsOver(T, E) ==
    { [kind |-> "document", tags |-> t, entities |-> e] :
          t \in SeqsUpTo(T, MaxRespTags), e \in SeqsUpTo(E, MaxRespEntities) }
    \cup { [kind |-> k, tags |-> <<>>, entities |-> <<>>] :
          k \in {"yaml_error", "connection_error"} }

\* the completions of the single-story specification
Completions == CompletionsOver(RespTags, RespEntities)

\* the completions of the runs: no tag or a tag new to the vocabulary; no
\* entity, a valid entity, or the same valid entity twice
AcmeCompany == [name |-> "acme", type |-> "company", score |-> NumScore(70), context |-> "ctx"]

RunCompletions ==
    { [kind |-> "document", tags |-> t, entities |-> e] :
          t \in { <<>>, <<[name |-> "rust", score |-> 40]>> },
          e \in { <<>>, <<AcmeCompany>>, <<AcmeCompany, AcmeCompany>> } }
    \cup { [kind |-> k, tags |-> <<>>, entities |-> <<>>] :
          k \in {"yaml_error", "connection_error"} }

\* ----------------------------------------- processing/story_processor.py
\* Python truthiness of the values item.get(...) can return
Truthy(v) == v # None /\ v # ""

TruthyScore(s) ==
    \/ s.kind = "num" /\ s.val # 0
    \/ s.kind = "str"

\* lines 94-117: the entity validation loop
EntityAccepted(item) ==
    /\ Truthy(item.name) /\ Truthy(item.type)
    /\ TruthyScore(item.score) /\ Truthy(item.context)
    /\ item.type \in valid_types
    /\ item.score.kind = "num"
    /\ 0 <= item.score.val /\ item.score.val <= 100

RECURSIVE ExtractEntities(_, _)
ExtractEntities(raw, k) ==
    IF k > Len(raw) THEN <<>>
    ELSE LET rest == ExtractEntities(raw, k + 1)
             item == raw[k]
         IN IF EntityAccepted(item)
            THEN <<[name |-> item.name, type |-> item.type,
                    score |-> item.score.val, context |-> item.context]>> \o rest
            ELSE rest

\* the fallback tags at 0.0 instead of the given score
RequiredAt_zero(score) ==
    [k \in 1..Len(REQUIRED_TAGS) |-> [name |-> REQUIRED_TAGS[k], score |-> 0]]

\* [(tag, score) for tag in self.required_tags]
RequiredAt(score) ==
    [k \in 1..Len(REQUIRED_TAGS) |-> [name |-> REQUIRED_TAGS[k], score |-> score]]

RECURSIVE AppendMissing(_, _)
\* lines 123-127: append every required tag the response left out, at 0.0
AppendMissing(tags, k) ==
    IF k > Len(REQUIRED_TAGS) THEN tags
    ELSE LET t == REQUIRED_TAGS[k]
             present == \E j \in 1..Len(tags) : tags[j].name = t
         IN AppendMissing(IF present THEN tags
                          ELSE Append(tags, [name |-> t, score |-> 0]), k + 1)

\* The documents that are YAML of another shape than the prompt asks for:
\* no mapping at the top (a list, a text, an empty document), a mapping
\* without summary or without tags, a tag without name or score, a tag
\* score that is a text or null, an entity that is a text.
ShapeKinds ==
    {"not_a_mapping", "missing_summary", "missing_tags", "tag_missing_key",
     "tag_score_text", "tag_score_null", "entity_not_a_mapping"}

\* the exception lines 85-117 raise on the document
shape_error(kind) ==
    CASE kind = "not_a_mapping" -> "TypeError"
      [] kind \in {"missing_summary", "missing_tags", "tag_missing_key"} -> "KeyError"
      [] kind = "tag_score_text" -> "ValueError"
      [] kind = "tag_score_null" -> "TypeError"
      [] kind = "entity_not_a_mapping" -> "AttributeError"

\* "except (KeyError, ValueError) as e:"
caught_data_error(e) == e \in {"KeyError", "ValueError"}

\* StoryProcessor.process_content: content, target_content and comments are
\* the truthiness of the three arguments, completion is what the one
\* completion request of GenAIProcessor.process (RAW format) brings back.
process_content(content, target_content, comments, completion) ==
    IF ~(content \/ target_content \/ comments)
    THEN [raised |-> "EmptySummaryResult", requests |-> 0,
          summary |-> None, tags |-> <<>>, entities |-> <<>>]
    ELSE IF completion.kind = "connection_error"
    THEN [raised |-> None, requests |-> 1,
          summary |-> "Error: Network issue while processing",
          tags |-> RequiredAt(50), entities |-> <<>>]
    ELSE IF completion.kind = "yaml_error"
    THEN [raised |-> None, requests |-> 1,
          summary |-> "Error: Invalid response format",
          tags |-> RequiredAt(50), entities |-> <<>>]
    ELSE IF completion.kind \in ShapeKinds
    THEN IF caught_data_error(shape_error(completion.kind))
         THEN [raised |-> None, requests |-> 1,
               summary |-> "Error: Invalid response data",
               tags |-> RequiredAt(50), entities |-> <<>>]
         ELSE [raised |-> shape_error(completion.kind), requests |-> 1,
               summary |-> None, tags |-> <<>>, entities |-> <<>>]
    ELSE [raised |-> None, requests |-> 1,
          summary |-> "summary",
          tags |-> AppendMissing(completion.tags, 1),
          entities |-> ExtractEntities(completion.entities, 1)]

\* -------------------------------------------------------- the database
\* db is the committed database.  processed is the processed_stories table,
\* tagRel and entRel are item_tag_relations and item_entity_relations, tags
\* and entities the vocabulary tables, url_contents the URLs that have a
\* URLContent row, target_content the email stories that carry extracted
\* content, urls the Telegram stories whose urls column is filled, nextId
\* the sequence behind processed_stories.id.
EmptyDb ==
    [processed |-> {}, tagRel |-> {}, entRel |-> {}, tags |-> {}, entities |-> {},
     url_contents |-> {}, target_content |-> {}, urls |-> {}, nextId |-> 1]

\* the join compares related_item_type with another table's name
ProcessedOf_wrong_type(d, i) ==
    {p \in d.processed : p.related_item_type = "story" /\ p.related_item_id = ItemId(i)}

\* the outer join of the batch statement: the ProcessedItem rows with the
\* story's related_item_type and related_item_id
ProcessedOf(d, i) ==
    {p \in d.processed : p.related_item_type = ItemType(i) /\ p.related_item_id = ItemId(i)}

\* --------------------------------------------------- db/operations.py
\* A unit of work is [sess, comm, failed]: the session's view, the last
\* committed state, and whether a flush has failed.  db.commit() makes the
\* whole session state the committed one.
Commit(st) == [st EXCEPT !.comm = st.sess]

get_or_create_tag(st, tag_name) ==
    IF tag_name \in st.sess.tags THEN st
    ELSE Commit([st EXCEPT !.sess.tags = @ \cup {tag_name}])

get_or_create_entity(st, name, entity_type) ==
    IF <<name, entity_type>> \in st.sess.entities THEN st
    ELSE Commit([st EXCEPT !.sess.entities = @ \cup {<<name, entity_type>>}])

ensure_required_tags(d) == [d EXCEPT !.tags = @ \cup Range(REQUIRED_TAGS)]

\* ------------------------------------- scripts/*_process_stories.py
RECURSIVE DictOf(_, _, _)
\* dict(tags): one entry per name, first position, last score
DictOf(tags, k, acc) ==
    IF k > Len(tags) THEN acc
    ELSE LET t == tags[k]
         IN IF \E j \in 1..Len(acc) : acc[j].name = t.name
            THEN DictOf(tags, k + 1,
                        [j \in 1..Len(acc) |-> IF acc[j].name = t.name THEN t ELSE acc[j]])
            ELSE DictOf(tags, k + 1, Append(acc, t))

\* tag_dict = dict(tags), then every required tag not in it is set to 0.0
tag_dict(tags) == AppendMissing(DictOf(tags, 1, <<>>), 1)

RECURSIVE CreateTagRelations(_, _, _, _)
\* for tag_name, score in tag_dict.items(): get_or_create_tag, add relation.
\* A second row for one (item_id, tag_id) fails at the next flush.
CreateTagRelations(st, item_id, td, k) ==
    IF k > Len(td) THEN st
    ELSE LET st1 == get_or_create_tag(st, td[k].name)
             clash == \E r \in st1.sess.tagRel : r.item_id = item_id /\ r.tag = td[k].name
         IN IF clash THEN [st1 EXCEPT !.failed = TRUE]
            ELSE CreateTagRelations(
                     [st1 EXCEPT !.sess.tagRel = @ \cup
                         {[item_id |-> item_id, tag |-> td[k].name,
                           relation_value |-> td[k].score]}],
                     item_id, td, k + 1)

RECURSIVE CreateEntityRelations(_, _, _, _)
\* for name, entity_type, score, context in entities: get_or_create_entity,
\* add relation.  A second row for one (item_id, entity_id) fails at the
\* next flush, before any further commit.
CreateEntityRelations(st, item_id, ents, k) ==
    IF st.failed \/ k > Len(ents) THEN st
    ELSE LET e == ents[k]
             st1 == get_or_create_entity(st, e.name, e.type)
             clash == \E r \in st1.sess.entRel :
                          r.item_id = item_id /\ r.name = e.name /\ r.type = e.type
         IN IF clash THEN [st1 EXCEPT !.failed = TRUE]
            ELSE CreateEntityRelations(
                     [st1 EXCEPT !.sess.entRel = @ \cup
                         {[item_id |-> item_id, name |-> e.name, type |-> e.type,
                           relation_value |-> e.score, context |-> e.context]}],
                     item_id, ents, k + 1)

\* "Delete existing relations" and "Update existing item" of the
\* force_regenerate branch
ReplaceExisting(d, p, summary, t) ==
    [d EXCEPT !.tagRel = {r \in @ : r.item_id # p.id},
              !.entRel = {r \in @ : r.item_id # p.id},
              !.processed = (@ \ {p}) \cup {[p EXCEPT !.created_at = t, !.summary = summary]}]

\* "if not processed_item": insert a new ProcessedItem and flush
InsertProcessed(d, i, summary, t) ==
    [d EXCEPT !.processed = @ \cup
                  {[id |-> d.nextId, created_at |-> t, summary |-> summary,
                    related_item_type |-> ItemType(i), related_item_id |-> ItemId(i)]},
              !.nextId = @ + 1]

\* a ProcessedItem is added whether or not one was found
MissingProcessedItem_always(existing) == TRUE

\* "if not processed_item:"
MissingProcessedItem(existing) == existing = {}

\* The persistence half of the loop body: from "Get existing or create new
\* processed item" to the closing db.commit().  st is the unit of work the
\* content resolution left, existing the ProcessedItem rows found for story i.
PersistStory(st, i, existing, force, analysis, t) ==
    LET p == CHOOSE x \in existing : TRUE
        d1 == IF force /\ existing # {}
              THEN ReplaceExisting(st.sess, p, analysis.summary, t)
              ELSE st.sess
        d2 == IF MissingProcessedItem(existing)
              THEN InsertProcessed(d1, i, analysis.summary, t)
              ELSE d1
        item_id == IF MissingProcessedItem(existing) THEN d1.nextId ELSE p.id
        st3 == CreateTagRelations([st EXCEPT !.sess = d2], item_id,
                                  tag_dict(analysis.tags), 1)
        st4 == CreateEntityRelations(st3, item_id, analysis.entities, 1)
    IN IF st4.failed THEN st4 ELSE Commit(st4)

\* ------------------------------------------------------------ the runs
NoRun ==
    [source |-> None, force |-> FALSE, offset |-> 0, stories |-> <<>>, pos |-> 1,
     all_processed |-> FALSE, outcome |-> None]

\* no prepare_context call
NoCtx == [pc |-> None]

\* no digest generation
NoDigest == [pc |-> None]

\* no GenAIProcessor.process call
NoProcess == [pc |-> None]

\* no DiffBotExtractor.extract_content call
NoExtract == [pc |-> None]

\* no content resolution
NoCache == [pc |-> None]

\* no normalize_url call
NoNormalize == [pc |-> None]

\* no ingestion
NoIngest == [pc |-> None]

\* no stepwise persistence
NoTx == [pc |-> None]

\* no concurrent get-or-create
NoRace == [pc |-> None]

\* no paged run
NoPaging == [pc |-> None]

\* no Telegram fetch
NoCheckpoint == [pc |-> None]

\* no raw table under enrichment
NoRaw == [pc |-> None]

NoLast == [item |-> 0, status |-> None, kind |-> None, analysis |-> None]

Init ==
    /\ db = EmptyDb
    /\ pc = "idle"
    /\ run = NoRun
    /\ now = 0
    /\ raws = NoRaw
    /\ llm = [requests |-> 0]
    /\ last = NoLast
    /\ ctx = NoCtx
    /\ dg = NoDigest
    /\ gp = NoProcess
    /\ ex = NoExtract
    /\ cache = NoCache
    /\ nu = NoNormalize
    /\ tx = NoTx
    /\ race = NoRace
    /\ pg = NoPaging
    /\ tg = NoCheckpoint
    /\ ing = NoIngest

\* Story.content of a Hacker News story: a text post
story_content(i) == TRUE

RECURSIVE Ascending(_)
Ascending(S) ==
    IF S = {} THEN <<>>
    ELSE LET m == CHOOSE x \in S : \A y \in S : x <= y
         IN <<m>> \o Ascending(S \ {m})

\* The rows the batch statement selects before limit and offset: the
\* source's stories (Hacker News: with more than 100 votes), outer-joined to
\* their ProcessedItem, and without force_regenerate only those without one.
Selected(d, source, force) ==
    {i \in Items :
        /\ ItemType(i) = source
        /\ source = "hacker_news_story" => vote_count(i) > MIN_VOTES
        /\ ~force => ProcessedOf(d, i) = {}}

\* stmt.limit(batch_size).offset(offset)
Batch(d, source, force, offset) ==
    LET rows == Ascending(Selected(d, source, force))
    IN SubSeq(rows, offset + 1,
              IF offset + batch_size < Len(rows) THEN offset + batch_size ELSE Len(rows))

\* process_stories / process_email_stories / process_telegram_stories up to
\* the loop: open the session, ensure_required_tags, offset = 0.
StartRun(source, force) ==
    /\ pc = "idle"
    /\ now < MaxRuns
    /\ now' = now + 1
    /\ db' = ensure_required_tags(db)
    /\ run' = [source |-> source, force |-> force, offset |-> 0, stories |-> <<>>,
               pos |-> 1, outcome |-> "running",
               all_processed |->
                   \A i \in Items : ItemType(i) = source =>
                       \E p \in db.processed : /\ p.related_item_type = source
                                               /\ p.related_item_id = ItemId(i)]
    /\ pc' = "select"
    /\ last' = NoLast
    /\ UNCHANGED <<llm, ctx, dg, gp, ex, cache, nu, ing, tx, race, pg, tg, raws>>

\* "Get batch of stories"; an empty batch ends the run.
SelectBatch ==
    /\ pc = "select"
    /\ LET stories == Batch(db, run.source, run.force, run.offset)
       IN IF stories = <<>>
          THEN /\ pc' = "idle"
               /\ run' = [run EXCEPT !.outcome = "finished", !.stories = <<>>]
          ELSE /\ pc' = "loop"
               /\ run' = [run EXCEPT !.stories = stories, !.pos = 1]
    /\ UNCHANGED <<db, now, llm, last, ctx, dg, gp, ex, cache, nu, ing, tx, race, pg, tg, raws>>

leave_loop(d, i, status) ==
    /\ db' = d
    /\ pc' = "idle"
    /\ run' = [run EXCEPT !.outcome = "finished"]
    /\ last' = [item |-> i, status |-> status, kind |-> None, analysis |-> None]
    /\ UNCHANGED <<now, llm, ctx, dg, gp, ex, cache, nu, ing, tx, race, pg, tg, raws>>

\* the relations of the story are deleted before the story is left
continue_without_relations(d, i, status) ==
    /\ db' = [d EXCEPT !.tagRel = {r \in @ : \A p \in ProcessedOf(d, i) : r.item_id # p.id},
                       !.entRel = {r \in @ : \A p \in ProcessedOf(d, i) : r.item_id # p.id}]
    /\ run' = [run EXCEPT !.pos = @ + 1]
    /\ last' = [item |-> i, status |-> status, kind |-> None, analysis |-> None]
    /\ UNCHANGED <<pc, now, llm, ctx, dg, gp, ex, cache, nu, ing, tx, race, pg, tg, raws>>

\* "continue": the story is left, d is what has been committed for it
Continue(d, i, status) ==
    /\ db' = d
    /\ run' = [run EXCEPT !.pos = @ + 1]
    /\ last' = [item |-> i, status |-> status, kind |-> None, analysis |-> None]
    /\ UNCHANGED <<pc, now, llm, ctx, dg, gp, ex, cache, nu, ing, tx, race, pg, tg, raws>>

\* The loop body from "Process story content" on: the analysis and the
\* persistence.  comm is the committed database, sess the session's view
\* (comm and the rows flushed for this story so far).  A failed flush rolls
\* the session back and ends the run with the error, and so does an
\* exception of the analysis other than EmptySummaryResult.
Analyse(comm, sess, i, existing, content, target_content, comments, completion) ==
    LET analysis == process_content(content, target_content, comments, completion)
    IN IF analysis.raised = "EmptySummaryResult"
       THEN Continue(comm, i, "skipped_empty")
       ELSE IF analysis.raised # None
       THEN /\ llm' = [llm EXCEPT !.requests = @ + analysis.requests]
            /\ db' = comm
            /\ last' = [item |-> i, kind |-> completion.kind, analysis |-> analysis,
                        status |-> "raised"]
            /\ pc' = "idle"
            /\ run' = [run EXCEPT !.outcome = "aborted"]
            /\ UNCHANGED <<now, ctx, dg, gp, ex, cache, nu, ing, tx, race, pg, tg, raws>>
       ELSE LET st == PersistStory([sess |-> sess, comm |-> comm, failed |-> FALSE],
                                   i, existing, run.force, analysis, now)
            IN /\ llm' = [llm EXCEPT !.requests = @ + analysis.requests]
               /\ db' = [st.comm EXCEPT !.nextId = st.sess.nextId]
               /\ last' = [item |-> i, kind |-> completion.kind, analysis |-> analysis,
                           status |-> IF st.failed THEN "aborted" ELSE "persisted"]
               /\ IF st.failed
                  THEN /\ pc' = "idle"
                       /\ run' = [run EXCEPT !.outcome = "aborted"]
                  ELSE /\ pc' = pc
                       /\ run' = [run EXCEPT !.pos = @ + 1]
               /\ UNCHANGED <<now, ctx, dg, gp, ex, cache, nu, ing, tx, race, pg, tg, raws>>

\* process_stories, one pass of "for story in stories", for the given
\* completions and the given truthiness of Story.content
ProcessStoryOver(completions, contents) ==
    /\ pc = "loop"
    /\ run.source = "hacker_news_story"
    /\ run.pos <= Len(run.stories)
    /\ LET story == run.stories[run.pos]
           processed_item == ProcessedOf(db, story)
       IN IF processed_item # {} /\ ~run.force
          THEN Continue(db, story, "skipped_done")
          ELSE \E completion \in completions, content \in contents :
                   Analyse(db, db, story, processed_item, content,
                           story \in db.target_content, FALSE, completion)

ProcessStory == ProcessStoryOver(RunCompletions, {story_content(i) : i \in Items})

\* What content_extractor.extract_content can return for the story's URL:
\* a text or nothing; it is not called when the story carries content or
\* the URL has a URLContent row.
Extractions(d, i) ==
    IF i \in d.target_content \/ StoryUrl(i) \in d.url_contents
    THEN {FALSE}
    ELSE BOOLEAN

\* process_email_stories, "Get or extract content if not already present":
\* extracted is whether extract_content returned a text
EmailContent(d, i, extracted) ==
    IF i \notin d.target_content
    THEN IF StoryUrl(i) \in d.url_contents
         THEN [d EXCEPT !.target_content = @ \cup {i}]
         ELSE IF extracted
              THEN [d EXCEPT !.target_content = @ \cup {i},
                             !.url_contents = @ \cup {StoryUrl(i)}]
              ELSE d
    ELSE d

\* process_email_stories, one pass of "for story in stories"
ProcessEmailStoryOver(completions) ==
    /\ pc = "loop"
    /\ run.source = "email_story"
    /\ run.pos <= Len(run.stories)
    /\ LET story == run.stories[run.pos]
           processed_item == ProcessedOf(db, story)
       IN IF processed_item # {} /\ ~run.force
          THEN Continue(db, story, "skipped_done")
          ELSE \E extracted \in Extractions(db, story), completion \in completions :
                   LET d1 == EmailContent(db, story, extracted)
                   IN IF story \notin d1.target_content
                      THEN Continue(d1, story, "skipped_empty")
                      ELSE Analyse(d1, d1, story, processed_item, TRUE, TRUE, FALSE,
                                   completion)

ProcessEmailStory == ProcessEmailStoryOver(RunCompletions)

RECURSIVE UrlContents(_, _, _, _)
\* process_telegram_stories, "Get or extract content from URLs": the result
\* is [sess, found], the session with the flushed URLContent rows and
\* whether url_contents ended non-empty
UrlContents(res, urls, k, extracted) ==
    IF k > Len(urls) THEN res
    ELSE IF urls[k] \in res.sess.url_contents
         THEN UrlContents([res EXCEPT !.found = TRUE], urls, k + 1, extracted)
         ELSE IF extracted
              THEN UrlContents([sess |-> [res.sess EXCEPT !.url_contents = @ \cup {urls[k]}],
                                found |-> TRUE], urls, k + 1, extracted)
              ELSE UrlContents(res, urls, k + 1, extracted)

\* process_telegram_stories, one pass of "for story in stories"
ProcessTelegramStoryOver(completions) ==
    /\ pc = "loop"
    /\ run.source = "telegram_story"
    /\ run.pos <= Len(run.stories)
    /\ LET story == run.stories[run.pos]
           processed_item == ProcessedOf(db, story)
       IN IF processed_item # {} /\ ~run.force
          THEN Continue(db, story, "skipped_done")
          ELSE \E extracted \in Extractions(db, story), completion \in completions :
                   LET d1 == [db EXCEPT !.urls = @ \cup {story}]
                       res == UrlContents([sess |-> d1, found |-> FALSE],
                                          extract_urls(story), 1, extracted)
                   IN Analyse(d1, res.sess, story, processed_item, TRUE, res.found,
                              FALSE, completion)

ProcessTelegramStory == ProcessTelegramStoryOver(RunCompletions)

\* "Move to next batch"
NextBatch ==
    /\ pc = "loop"
    /\ run.pos > Len(run.stories)
    /\ run' = [run EXCEPT !.offset = @ + batch_size]
    /\ pc' = "select"
    /\ UNCHANGED <<db, now, llm, last, ctx, dg, gp, ex, cache, nu, ing, tx, race, pg, tg, raws>>

Next ==
    \/ \E source \in SourceTypes, force \in BOOLEAN : StartRun(source, force)
    \/ SelectBatch
    \/ ProcessStory
    \/ ProcessEmailStory
    \/ ProcessTelegramStory
    \/ NextBatch

Spec == Init /\ [][Next]_vars

\* ------------------------------------------- runs over stories that lost their text
\* The runs in both modes where a Hacker News story has a text or none when
\* it is visited (a story's text and comments can go between two runs), and
\* where the completion is a document with or without an entity.
ForceCompletions ==
    { [kind |-> "document", tags |-> <<>>, entities |-> e] : e \in { <<>>, <<AcmeCompany>> } }

StartAnyRun == \E source \in SourceTypes, force \in BOOLEAN : StartRun(source, force)

ProcessStoryForce == ProcessStoryOver(ForceCompletions, BOOLEAN)

ProcessEmailStoryForce == ProcessEmailStoryOver(ForceCompletions)

ProcessTelegramStoryForce == ProcessTelegramStoryOver(ForceCompletions)

NextForce ==
    \/ StartAnyRun
    \/ SelectBatch
    \/ ProcessStoryForce
    \/ ProcessEmailStoryForce
    \/ ProcessTelegramStoryForce
    \/ NextBatch

SpecForce == Init /\ [][NextForce]_vars

\* ------------------------------------------- runs with errors in the analysis
\* The runs without force_regenerate where a completion is a document of
\* the right shape, one of another shape, no YAML, or a connection error,
\* and where a Hacker News story has a text or not.
ErrorCompletions ==
    { [kind |-> k, tags |-> <<>>, entities |-> <<>>] :
          k \in {"document", "yaml_error", "connection_error"} \cup ShapeKinds }

StartErrorRun == \E source \in SourceTypes : StartRun(source, FALSE)

ProcessStoryErrors == ProcessStoryOver(ErrorCompletions, BOOLEAN)

ProcessEmailStoryErrors == ProcessEmailStoryOver(ErrorCompletions)

ProcessTelegramStoryErrors == ProcessTelegramStoryOver(ErrorCompletions)

NextErrors ==
    \/ StartErrorRun
    \/ SelectBatch
    \/ ProcessStoryErrors
    \/ ProcessEmailStoryErrors
    \/ ProcessTelegramStoryErrors
    \/ NextBatch

SpecErrors == Init /\ [][NextErrors]_vars

\* ------------------------------------------------- one story, one completion
\* The analysis and the persistence of a single new story, for every
\* completion and every truthiness of the three arguments of process_content.
StoryInputs ==
    { [item |-> 1, status |-> "input", kind |-> c.kind, completion |-> c,
       args |-> a, analysis |-> None] :
          c \in Completions, a \in [1..3 -> BOOLEAN] }

InitStory ==
    /\ db = ensure_required_tags(EmptyDb)
    /\ pc = "story"
    /\ run = NoRun
    /\ now = 1
    /\ raws = NoRaw
    /\ llm = [requests |-> 0]
    /\ last \in StoryInputs
    /\ ctx = NoCtx
    /\ dg = NoDigest
    /\ gp = NoProcess
    /\ ex = NoExtract
    /\ cache = NoCache
    /\ nu = NoNormalize
    /\ tx = NoTx
    /\ race = NoRace
    /\ pg = NoPaging
    /\ tg = NoCheckpoint
    /\ ing = NoIngest

\* story_processor.process_content(content, target_content, comments)
AnalyseStory ==
    /\ pc = "story"
    /\ LET analysis == process_content(last.args[1], last.args[2], last.args[3],
                                       last.completion)
       IN /\ last' = [last EXCEPT !.analysis = analysis, !.status = "analysed"]
          /\ pc' = IF analysis.raised = None THEN "analysed" ELSE "raised"
          /\ llm' = [llm EXCEPT !.requests = @ + analysis.requests]
    /\ UNCHANGED <<db, run, now, ctx, dg, gp, ex, cache, nu, ing, tx, race, pg, tg, raws>>

\* the persistence half of the loop body for the analysed story
PersistAnalysed ==
    /\ pc = "analysed"
    /\ LET st == PersistStory([sess |-> db, comm |-> db, failed |-> FALSE],
                              last.item, {}, run.force, last.analysis, now)
       IN /\ db' = [st.comm EXCEPT !.nextId = st.sess.nextId]
          /\ pc' = IF st.failed THEN "aborted" ELSE "persisted"
          /\ last' = [last EXCEPT !.status = IF st.failed THEN "aborted" ELSE "persisted"]
    /\ UNCHANGED <<run, now, llm, ctx, dg, gp, ex, cache, nu, ing, tx, race, pg, tg, raws>>

NextStory == AnalyseStory \/ PersistAnalysed

SpecStory == InitStory /\ [][NextStory]_vars

\* ------------------------------------- processing/digest_context.py and
\* ------------------------------------- scripts/generate_tech_digest.py
\* A story of the call is a ProcessedItem with its raw item: head is the
\* length of the three header lines "Story: ...", "Type: ...", "ID: ...",
\* content the length of the raw item's content (0: no content), summary the
\* length of the summary, entities the number of entity relations, each of
\* which prints as "- acme (company)".
ContextStories ==
    { [head |-> 50, content |-> c, summary |-> m, entities |-> 0] :
          c \in {0, 100, 500, 1000}, m \in {23, 120} }
    \cup { [head |-> 50, content |-> 1000, summary |-> 23, entities |-> 1],
           [head |-> 50, content |-> 100, summary |-> 120, entities |-> 1] }

\* prompt_tokens: the estimate of a prompt template of 2000 characters, and
\* the values that leave a budget of 0, 62 and 300 tokens
PromptTokens == {500} \cup {MAX_CONTEXT_TOKENS - b : b \in {0, 62, 300}}

Variants == {"digest_context", "generate_tech_digest"}

estimate_tokens(len) == len \div CHARS_PER_TOKEN

\* format_story_context / _format_story_context: the block of one story.
\* digest_context.py reads entity.entity_type and entity.description, which
\* ItemEntity does not have, so there a story with entities raises.
format_story_context(story, idx, use_summary, variant) ==
    IF variant = "digest_context" /\ story.entities > 0
    THEN [raised |-> "AttributeError", story |-> idx, mode |-> None, len |-> 0,
          content_length |-> 0]
    ELSE LET summarised == use_summary \/ story.content = 0
             content_section == 9 + (IF summarised THEN story.summary ELSE story.content)
             entities_section == IF story.entities > 0
                                 THEN 10 + 16 * story.entities + 1
                                 ELSE 0
         IN [raised |-> None, story |-> idx,
             mode |-> IF summarised THEN "Summary" ELSE "Content",
             len |-> story.head + entities_section + content_section + 5,
             content_length |-> story.content]

\* the whole window, the prompt not deducted
available_tokens_without_prompt(prompt_tokens) == MAX_CONTEXT_TOKENS

\* available_tokens = MAX_CONTEXT_TOKENS - prompt_tokens
available_tokens(prompt_tokens) == MAX_CONTEXT_TOKENS - prompt_tokens

RECURSIVE SumTokens(_, _)
\* total_tokens of the first pass: the sum of the blocks' estimates
SumTokens(parts, k) ==
    IF k > Len(parts) THEN 0
    ELSE estimate_tokens(parts[k].len) + SumTokens(parts, k + 1)

\* the insertion of an ascending sort
InsertSmallestFirst(sorted, x) ==
    LET before == Cardinality({j \in 1..Len(sorted) : sorted[j][2] <= x[2]})
    IN SubSeq(sorted, 1, before) \o <<x>> \o SubSeq(sorted, before + 1, Len(sorted))

\* one insertion of the stable descending sort: x goes behind every entry
\* that is at least as long
InsertLargestFirst(sorted, x) ==
    LET before == Cardinality({j \in 1..Len(sorted) : sorted[j][2] >= x[2]})
    IN SubSeq(sorted, 1, before) \o <<x>> \o SubSeq(sorted, before + 1, Len(sorted))

RECURSIVE SortSizes(_, _, _)
\* story_sizes.sort(key=lambda x: x[1], reverse=True)
SortSizes(story_sizes, k, acc) ==
    IF k > Len(story_sizes) THEN acc
    ELSE SortSizes(story_sizes, k + 1, InsertLargestFirst(acc, story_sizes[k]))

\* the new block written at the position in story_sizes
replace_at_sorted_position(context_parts, idx, pos, new_context) ==
    [context_parts EXCEPT ![pos] = new_context]

\* context_parts[idx] = new_context; pos is the position in story_sizes
replace_context(context_parts, idx, pos, new_context) ==
    [context_parts EXCEPT ![idx] = new_context]

never_within_limit(total_tokens, available) == FALSE

\* "if total_tokens <= available_tokens: break"
within_limit(total_tokens, available) == total_tokens <= available

ContextCalls ==
    { [pc |-> "call", variant |-> v, stories |-> st, prompt_tokens |-> pt,
       context_parts |-> <<>>, story_sizes |-> <<>>, total_tokens |-> 0, k |-> 1] :
          v \in Variants, st \in SeqsUpTo(ContextStories, MaxStories), pt \in PromptTokens }

InitContext ==
    /\ db = EmptyDb
    /\ pc = "idle"
    /\ run = NoRun
    /\ now = 0
    /\ raws = NoRaw
    /\ llm = [requests |-> 0]
    /\ last = NoLast
    /\ ctx \in ContextCalls
    /\ dg = NoDigest
    /\ gp = NoProcess
    /\ ex = NoExtract
    /\ cache = NoCache
    /\ nu = NoNormalize
    /\ tx = NoTx
    /\ race = NoRace
    /\ pg = NoPaging
    /\ tg = NoCheckpoint
    /\ ing = NoIngest

\* prepare_context, the first pass and the sort: every story at full content
FirstPass ==
    /\ ctx.pc = "call"
    /\ LET n == Len(ctx.stories)
           parts == [i \in 1..n |->
                        format_story_context(ctx.stories[i], i, FALSE, ctx.variant)]
           story_sizes == [i \in 1..n |-> <<i, parts[i].content_length>>]
           total_tokens == SumTokens(parts, 1)
       IN IF \E i \in 1..n : parts[i].raised # None
          THEN ctx' = [ctx EXCEPT !.pc = "raised"]
          ELSE IF total_tokens > available_tokens(ctx.prompt_tokens)
          THEN ctx' = [ctx EXCEPT !.pc = "degrade", !.context_parts = parts,
                                  !.total_tokens = total_tokens, !.k = 1,
                                  !.story_sizes = SortSizes(story_sizes, 1, <<>>)]
          ELSE ctx' = [ctx EXCEPT !.pc = "returned", !.context_parts = parts,
                                  !.total_tokens = total_tokens,
                                  !.story_sizes = story_sizes]
    /\ UNCHANGED <<db, pc, run, now, llm, last, dg, gp, ex, cache, nu, ing, tx, race, pg, tg, raws>>

\* prepare_context, one pass of "for idx, _ in story_sizes" that replaces a
\* block by its summary form
DegradeStep ==
    /\ ctx.pc = "degrade"
    /\ ctx.k <= Len(ctx.story_sizes)
    /\ ~within_limit(ctx.total_tokens, available_tokens(ctx.prompt_tokens))
    /\ LET idx == ctx.story_sizes[ctx.k][1]
           old_context == ctx.context_parts[idx]
           new_context == format_story_context(ctx.stories[idx], idx, TRUE, ctx.variant)
       IN ctx' = [ctx EXCEPT
                     !.total_tokens = @ - estimate_tokens(old_context.len)
                                        + estimate_tokens(new_context.len),
                     !.context_parts = replace_context(@, idx, ctx.k, new_context),
                     !.k = @ + 1]
    /\ UNCHANGED <<db, pc, run, now, llm, last, dg, gp, ex, cache, nu, ing, tx, race, pg, tg, raws>>

\* prepare_context, the break or the end of the loop, and the return of
\* "\n".join(context_parts)
ReturnContext ==
    /\ ctx.pc = "degrade"
    /\ \/ ctx.k > Len(ctx.story_sizes)
       \/ within_limit(ctx.total_tokens, available_tokens(ctx.prompt_tokens))
    /\ ctx' = [ctx EXCEPT !.pc = "returned"]
    /\ UNCHANGED <<db, pc, run, now, llm, last, dg, gp, ex, cache, nu, ing, tx, race, pg, tg, raws>>

NextContext == FirstPass \/ DegradeStep \/ ReturnContext

SpecContext == InitContext /\ [][NextContext]_vars

\* ------------------------------------- scripts/generate_tech_digest.py, main
\* The date range of the call and the dates around it: before the range, its
\* start, inside, its end, after.
DigestRange == [start_date |-> 2, end_date |-> 4]

DigestDates == {1, 2, 3, 4, 5}

\* the tag relations one ProcessedItem may have
DigestTagSets ==
    { {},
      {[tag |-> "machine learning", relation_value |-> 20]},
      {[tag |-> "machine learning", relation_value |-> 30]},
      {[tag |-> "rust", relation_value |-> 90]},
      {[tag |-> "machine learning", relation_value |-> 50],
       [tag |-> "cybersecurity", relation_value |-> 50]} }

DigestItems == {[created_at |-> c, tags |-> t] : c \in DigestDates, t \in DigestTagSets}

\* the database with the ProcessedItems its, ids 1..Len(its)
DigestDatabase(its) ==
    [EmptyDb EXCEPT
        !.processed = {[id |-> i, summary |-> "summary",
                        related_item_type |-> "email_story", related_item_id |-> i,
                        created_at |-> its[i].created_at] : i \in 1..Len(its)},
        !.tagRel = UNION {{[item_id |-> i, tag |-> r.tag,
                            relation_value |-> r.relation_value] : r \in its[i].tags} :
                          i \in 1..Len(its)},
        !.nextId = Len(its) + 1]

\* ProcessedItem.created_at <= end_date
created_at_within_end(created_at, end_date) == created_at <= end_date

\* the rows the statement of get_relevant_stories selects, each once
relevant_rows(d, start_date, end_date, min_score) ==
    {p \in d.processed :
        /\ p.created_at >= start_date
        /\ created_at_within_end(p.created_at, end_date)
        /\ \E r \in d.tagRel : /\ r.item_id = p.id
                               /\ r.tag \in RELEVANT_TAGS
                               /\ r.relation_value >= min_score}

\* get_relevant_stories: the rows in descending created_at; rows of equal
\* created_at come in any order
get_relevant_stories(d, start_date, end_date, min_score) ==
    LET rows == relevant_rows(d, start_date, end_date, min_score)
        n == Cardinality(rows)
    IN {s \in [1..n -> rows] :
           /\ \A i, j \in 1..n : i # j => s[i] # s[j]
           /\ \A i, j \in 1..n : i < j => s[i].created_at >= s[j].created_at}

\* "with session_scope() as db": what leaving the block does to the
\* database, committed the committed rows and pending the rows added since
\* the last commit.  An exception rolls the session back.
session_scope_exit(committed, pending, raised) ==
    IF raised THEN committed ELSE committed \cup pending

skip_first_story(stories, digest_id) ==
    {[id |-> k, digest_id |-> digest_id, processed_item_id |-> stories[k].id] :
         k \in 2..Len(stories)}

\* "Link stories to digest": one DigestStory per story
link_stories(stories, digest_id) ==
    {[id |-> k, digest_id |-> digest_id, processed_item_id |-> stories[k].id] :
         k \in 1..Len(stories)}

commit_without_links(session) ==
    [digests |-> session.digests, digest_stories |-> {}]

\* db.commit(): the rows a successful commit makes durable
commit_session(session) ==
    [digests |-> session.digests, digest_stories |-> session.digest_stories]

EmptySession == [digests |-> {}, digest_stories |-> {}]

DigestCall ==
    [pc |-> "main", start_date |-> DigestRange.start_date,
     end_date |-> DigestRange.end_date, stories |-> <<>>, digest |-> None,
     filename |-> None, session |-> EmptySession, digests |-> {},
     digest_stories |-> {}, prompts |-> <<>>, files |-> {}, outcome |-> None]

InitDigest ==
    /\ db \in {DigestDatabase(its) : its \in SeqsUpTo(DigestItems, MaxDigestItems)}
    /\ pc = "idle"
    /\ run = NoRun
    /\ now = 0
    /\ raws = NoRaw
    /\ llm = [requests |-> 0]
    /\ last = NoLast
    /\ ctx = NoCtx
    /\ dg = DigestCall
    /\ gp = NoProcess
    /\ ex = NoExtract
    /\ cache = NoCache
    /\ nu = NoNormalize
    /\ tx = NoTx
    /\ race = NoRace
    /\ pg = NoPaging
    /\ tg = NoCheckpoint
    /\ ing = NoIngest

\* main leaves the "with session_scope() as db" block, by return or by an
\* exception, in the state g
LeaveDigest(g, outcome, raised) ==
    [g EXCEPT !.pc = IF raised THEN "raised" ELSE "done",
              !.outcome = outcome,
              !.digests = session_scope_exit(g.digests, g.session.digests, raised),
              !.digest_stories = session_scope_exit(g.digest_stories,
                                                    g.session.digest_stories, raised),
              !.session = EmptySession]

\* main up to "if not stories": the prompt template is loaded, the stories
\* are selected, and without stories main returns
DigestSelect ==
    /\ dg.pc = "main"
    /\ \E loaded \in BOOLEAN :
          IF ~loaded
          THEN dg' = [dg EXCEPT !.pc = "raised", !.outcome = "FileNotFoundError"]
          ELSE \E stories \in get_relevant_stories(db, dg.start_date, dg.end_date,
                                                   MIN_TAG_SCORE) :
                   IF stories = <<>>
                   THEN dg' = LeaveDigest(dg, "no_stories", FALSE)
                   ELSE dg' = [dg EXCEPT !.pc = "process", !.stories = stories]
    /\ UNCHANGED <<db, pc, run, now, llm, last, ctx, gp, ex, cache, nu, ing, tx, race, pg, tg, raws>>

\* prepare_context and processor.process(prompt, RAW, temperature=0.3): one
\* completion request; a completion is saved as a Prompt row, committed in
\* a session of its own, and returned; a rate-limit or API error is raised
DigestProcess ==
    /\ dg.pc = "process"
    /\ llm' = [llm EXCEPT !.requests = @ + 1]
    /\ \E completion \in {"digest", "RateLimitError", "APIError"} :
          IF completion = "digest"
          THEN dg' = [dg EXCEPT
                         !.pc = "write", !.digest = completion,
                         !.prompts = Append(@, [prompt_text |-> "tech_digest",
                                                response_text |-> completion,
                                                response_format |-> "raw",
                                                temperature |-> "0.3"])]
          ELSE dg' = LeaveDigest(dg, completion, TRUE)
    /\ UNCHANGED <<db, pc, run, now, ctx, last, gp, ex, cache, nu, ing, tx, race, pg, tg, raws>>

\* os.makedirs and the write of data/digests/tech_digest_<time>.txt
DigestWrite ==
    /\ dg.pc = "write"
    /\ \E written \in BOOLEAN :
          IF written
          THEN dg' = [dg EXCEPT !.pc = "add", !.filename = "tech_digest.txt",
                                !.files = @ \cup {"tech_digest.txt"}]
          ELSE dg' = LeaveDigest(dg, "OSError", TRUE)
    /\ UNCHANGED <<db, pc, run, now, llm, last, ctx, gp, ex, cache, nu, ing, tx, race, pg, tg, raws>>

\* "Save digest to a database" and "Link stories to digest": the Digest and
\* the DigestStory rows are added to the session
DigestAdd ==
    /\ dg.pc = "add"
    /\ LET digest_id == Cardinality(dg.digests) + 1
           db_digest == [id |-> digest_id, content |-> dg.digest,
                         start_date |-> dg.start_date, end_date |-> dg.end_date,
                         file_path |-> dg.filename]
       IN dg' = [dg EXCEPT !.pc = "commit",
                           !.session = [digests |-> {db_digest},
                                        digest_stories |->
                                            link_stories(dg.stories, digest_id)]]
    /\ UNCHANGED <<db, pc, run, now, llm, last, ctx, gp, ex, cache, nu, ing, tx, race, pg, tg, raws>>

\* db.commit(): it makes the session's rows durable, or it fails
DigestCommit ==
    /\ dg.pc = "commit"
    /\ \E committed \in BOOLEAN :
          IF committed
          THEN LET rows == commit_session(dg.session)
               IN dg' = LeaveDigest([dg EXCEPT
                                        !.digests = @ \cup rows.digests,
                                        !.digest_stories = @ \cup rows.digest_stories,
                                        !.session = EmptySession],
                                    "saved", FALSE)
          ELSE dg' = LeaveDigest(dg, "SQLAlchemyError", TRUE)
    /\ UNCHANGED <<db, pc, run, now, llm, last, ctx, gp, ex, cache, nu, ing, tx, race, pg, tg, raws>>

NextDigest ==
    DigestSelect \/ DigestProcess \/ DigestWrite \/ DigestAdd \/ DigestCommit

SpecDigest == InitDigest /\ [][NextDigest]_vars

\* ------------------------------------------------- genai/processor.py
\* A text is a sequence of tokens: the fence marker, a format hint, a line
\* break, and a document that is well-formed YAML ("yaml_doc", as "a: 1"),
\* well-formed JSON and so YAML too ("json_doc", as {"a": 1}), or neither
\* ("malformed", as {"a": ).
\* the marker of three backquotes
FENCE == "<fence>"

Docs == {"yaml_doc", "json_doc", "malformed"}

\* the text of a completion: the document bare, or behind an opening fence
\* with or without a hint, with or without the closing fence
CompletionText(open, doc, close) ==
    (CASE open = "none" -> <<>>
       [] open = "bare" -> <<FENCE, "\n">>
       [] open = "yaml" -> <<FENCE, "yaml", "\n">>
       [] open = "json" -> <<FENCE, "json", "\n">>)
    \o <<doc>>
    \o (IF close THEN <<"\n", FENCE>> ELSE <<>>)

\* what one completion request brings: a text or an error of the API; a
\* text asked for as YAML carries no json hint
Attempts(response_format) ==
    { [kind |-> "text", text |-> CompletionText(open, doc, close)] :
          open \in IF response_format = "yaml" THEN {"none", "bare", "yaml"}
                   ELSE {"none", "bare", "yaml", "json"},
          doc \in Docs, close \in BOOLEAN }
    \cup { [kind |-> k, text |-> <<>>] : k \in {"RateLimitError", "APIError"} }

\* text.startswith(prefix)
startswith(text, prefix) ==
    Len(text) >= Len(prefix) /\ SubSeq(text, 1, Len(prefix)) = prefix

\* text.endswith(FENCE)
endswith_fence(text) == Len(text) > 0 /\ text[Len(text)] = FENCE

RECURSIVE strip(_)
\* text.strip()
strip(text) ==
    IF text = <<>> THEN text
    ELSE IF Head(text) = "\n" THEN strip(Tail(text))
    ELSE IF text[Len(text)] = "\n" THEN strip(SubSeq(text, 1, Len(text) - 1))
    ELSE text

\* _clean_code_block
_clean_code_block(text) ==
    IF startswith(text, <<FENCE>>)
    THEN LET opened == IF startswith(text, <<FENCE, "yaml">>)
                       THEN SubSeq(text, 3, Len(text))
                       ELSE SubSeq(text, 2, Len(text))
             closed == IF endswith_fence(opened)
                       THEN SubSeq(opened, 1, Len(opened) - 1)
                       ELSE opened
         IN strip(closed)
    ELSE strip(text)

\* _validate_and_parse_response: the parsed result, or the ValueError with
\* the parser's message, here the token the parser stops at
_validate_and_parse_response(text, response_format) ==
    CASE response_format = "yaml" ->
             IF text \in {<<"yaml_doc">>, <<"json_doc">>}
             THEN [raised |-> None, result |-> text]
             ELSE [raised |-> "ValueError", result |-> <<>>]
      [] response_format = "json" ->
             IF text = <<"json_doc">>
             THEN [raised |-> None, result |-> text]
             ELSE [raised |-> "ValueError", result |-> <<>>]
      [] OTHER -> [raised |-> None, result |-> text]

\* str(e) of the ValueError: "Invalid <format> format: <message>"
error_description(text, response_format) ==
    <<"Invalid", response_format, "format:", IF text = <<>> THEN "" ELSE Head(text)>>

corrective_prompt_nested(response_format, e, original_prompt, prompt) ==
    <<"Your previous response was not in valid", response_format, "format.", "Error:">>
    \o e
    \o <<"\n", "Please fix the format issues and provide a valid response.", "\n",
         "Original prompt:">> \o prompt

\* the follow-up prompt of a retry
corrective_prompt(response_format, e, original_prompt, prompt) ==
    <<"Your previous response was not in valid", response_format, "format.", "Error:">>
    \o e
    \o <<"\n", "Please fix the format issues and provide a valid response.", "\n",
         "Original prompt:">> \o original_prompt

no_last_attempt(retries, max_retries) == retries > max_retries

\* "if retries == self._max_retries: raise"
last_attempt(retries, max_retries) == retries = max_retries

retry_api_error(g, e) == [g EXCEPT !.retries = @ + 1]

\* "except RateLimitError ... raise", "except APIError ... raise"
raise_api_error(g, e) == [g EXCEPT !.pc = "raised", !.raised = e]

db_prompt_uncleaned(g, cleaned_content) ==
    [prompt_text |-> g.prompt, response_text |-> g.last.text,
     response_format |-> g.response_format, temperature |-> g.temperature,
     max_tokens |-> g.max_tokens]

\* "Save prompt to database": the Prompt row of the attempt
db_prompt(g, cleaned_content) ==
    [prompt_text |-> g.prompt, response_text |-> cleaned_content,
     response_format |-> g.response_format, temperature |-> g.temperature,
     max_tokens |-> g.max_tokens]

\* a row of the prompts table saved by an earlier call
OldPrompt ==
    [prompt_text |-> <<"old">>, response_text |-> <<"yaml_doc">>,
     response_format |-> "yaml", temperature |-> None, max_tokens |-> 16000]

\* The calls of process: the prompt is the text P; prompts is the prompts
\* table, requests the completion requests the call has made, invalid the
\* validation errors it has met, last the latest completion and last_error
\* the description of the latest validation error.
ProcessCalls ==
    { [pc |-> "request", response_format |-> f, max_retries |-> m, temperature |-> t,
       max_tokens |-> 16000, original_prompt |-> <<"P">>, prompt |-> <<"P">>,
       retries |-> 0, requests |-> 0, invalid |-> 0, prompts |-> old,
       result |-> None, raised |-> None, last |-> None, last_error |-> <<>>] :
          f \in {"yaml", "json", "raw"}, m \in 0..MaxMaxRetries,
          t \in {None, "0.3"}, old \in {<<>>, <<OldPrompt>>} }

InitProcess ==
    /\ db = EmptyDb
    /\ pc = "idle"
    /\ run = NoRun
    /\ now = 0
    /\ raws = NoRaw
    /\ llm = [requests |-> 0]
    /\ last = NoLast
    /\ ctx = NoCtx
    /\ dg = NoDigest
    /\ gp \in ProcessCalls
    /\ ex = NoExtract
    /\ cache = NoCache
    /\ nu = NoNormalize
    /\ tx = NoTx
    /\ race = NoRace
    /\ pg = NoPaging
    /\ tg = NoCheckpoint
    /\ ing = NoIngest

\* GenAIProcessor.process, one pass of "while retries <= self._max_retries":
\* the completion request, the cleaning, the validation, and then the save
\* and the return, the raise, or the corrective prompt of the next pass
ProcessAttempt ==
    /\ gp.pc = "request"
    /\ IF gp.retries > gp.max_retries
       THEN gp' = [gp EXCEPT !.pc = "returned", !.result = None]
       ELSE \E completion \in Attempts(gp.response_format) :
           LET g == [gp EXCEPT !.requests = @ + 1, !.last = completion]
               cleaned_content == _clean_code_block(completion.text)
               v == _validate_and_parse_response(cleaned_content, gp.response_format)
               e == error_description(cleaned_content, gp.response_format)
           IN IF completion.kind # "text"
              THEN gp' = raise_api_error(g, completion.kind)
              ELSE IF v.raised = None
              THEN \E saved \in BOOLEAN :
                      IF saved
                      THEN gp' = [g EXCEPT
                                     !.pc = "returned", !.result = v.result,
                                     !.prompts = Append(@, db_prompt(g, cleaned_content))]
                      ELSE gp' = [g EXCEPT !.pc = "raised", !.raised = "SQLAlchemyError"]
              ELSE IF last_attempt(gp.retries, gp.max_retries)
              THEN gp' = [g EXCEPT !.pc = "raised", !.raised = "ValueError",
                                   !.invalid = @ + 1, !.last_error = e]
              ELSE gp' = [g EXCEPT !.retries = @ + 1, !.invalid = @ + 1,
                                   !.last_error = e,
                                   !.prompt = corrective_prompt(
                                       gp.response_format, e, gp.original_prompt, gp.prompt)]
    /\ UNCHANGED <<db, pc, run, now, llm, last, ctx, dg, ex, cache, nu, ing, tx, race, pg, tg, raws>>

NextProcess == ProcessAttempt

SpecProcess == InitProcess /\ [][NextProcess]_vars

\* ------------------------------------------ DiffBotExtractor.extract_content
\* (processing/content_extractor.py)
\* Delays are whole seconds.  What one requests.get brings: a 200 response
\* with the text of the article, one whose first object has no text, one
\* with no objects, a response raise_for_status turns into an HTTPError
\* (429 and three other statuses), or an exception that is no HTTPError.
InitialDelays == {1, 2, 3}

HTTPErrorStatuses == {400, 404, 429, 500}

Responses ==
    { [kind |-> "ok", status |-> 200, text |-> t] : t \in {"text", None} }
    \cup { [kind |-> "no_objects", status |-> 200, text |-> None] }
    \cup { [kind |-> "HTTPError", status |-> s, text |-> None] : s \in HTTPErrorStatuses }
    \cup { [kind |-> "ConnectionError", status |-> 0, text |-> None] }

backoff_constant(delay) == delay

\* "delay *= 2  # Exponential backoff"
backoff(delay) == delay * 2

\* "if e.response.status_code == 429" and "if attempt < max_retries - 1"
rate_limit_retry(status_code, attempt, max_retries) ==
    status_code = 429 /\ attempt < max_retries - 1

\* The calls of extract_content: responses is the statuses of the requests
\* made, in order, and sleeps the arguments of time.sleep, in order.
ExtractCalls ==
    { [pc |-> "call", mailto |-> u, max_retries |-> m, initial_delay |-> d,
       delay |-> 0, attempt |-> 0, responses |-> <<>>, sleeps |-> <<>>,
       result |-> None, raised |-> None] :
          u \in BOOLEAN, m \in 0..MaxExtractRetries, d \in InitialDelays }

InitExtract ==
    /\ db = EmptyDb
    /\ pc = "idle"
    /\ run = NoRun
    /\ now = 0
    /\ raws = NoRaw
    /\ llm = [requests |-> 0]
    /\ last = NoLast
    /\ ctx = NoCtx
    /\ dg = NoDigest
    /\ gp = NoProcess
    /\ ex \in ExtractCalls
    /\ cache = NoCache
    /\ nu = NoNormalize
    /\ tx = NoTx
    /\ race = NoRace
    /\ pg = NoPaging
    /\ tg = NoCheckpoint
    /\ ing = NoIngest

\* the mailto check, "delay = initial_delay" and "attempt = 0"
ExtractEnter ==
    /\ ex.pc = "call"
    /\ ex' = IF ex.mailto
             THEN [ex EXCEPT !.pc = "returned", !.result = None]
             ELSE [ex EXCEPT !.pc = "request", !.delay = ex.initial_delay,
                             !.attempt = 0]
    /\ UNCHANGED <<db, pc, run, now, llm, last, ctx, dg, gp, cache, nu, ing, tx, race, pg, tg, raws>>

\* one pass of "while attempt < max_retries", or the return after the loop
ExtractRequest ==
    /\ ex.pc = "request"
    /\ IF ~(ex.attempt < ex.max_retries)
       THEN ex' = [ex EXCEPT !.pc = "returned", !.result = None]
       ELSE \E response \in Responses :
           LET e == [ex EXCEPT !.responses = Append(@, response.status)]
           IN CASE response.kind = "ok" ->
                     ex' = [e EXCEPT !.pc = "returned", !.result = response.text]
                [] response.kind = "no_objects" ->
                     ex' = [e EXCEPT !.pc = "returned", !.result = None]
                [] response.kind = "ConnectionError" ->
                     ex' = [e EXCEPT !.pc = "raised", !.raised = "ConnectionError"]
                [] response.kind = "HTTPError" ->
                     IF rate_limit_retry(response.status, ex.attempt, ex.max_retries)
                     THEN ex' = [e EXCEPT !.sleeps = Append(@, ex.delay),
                                          !.delay = backoff(ex.delay),
                                          !.attempt = @ + 1]
                     ELSE ex' = [e EXCEPT !.pc = "returned", !.result = None]
    /\ UNCHANGED <<db, pc, run, now, llm, last, ctx, dg, gp, cache, nu, ing, tx, race, pg, tg, raws>>

NextExtract ==
    \/ ExtractEnter
    \/ ExtractRequest

SpecExtract == InitExtract /\ [][NextExtract]_vars

\* ------------------------------------------------------ the content cache
\* (scripts/email_process_stories.py, scripts/telegram_process_stories.py,
\* db/models/url_content.py)
\* The url_contents table is a set of rows [id, url, target_content]; url is
\* unique, target_content is nullable.  A content is "cached" (in the table
\* before the runs), "extracted" (what extract_content returns) or "own"
\* (EmailStory.target_content before the runs).
CacheUrls == {"u1", "u2"}

\* the email stories with their url, the Telegram stories with their urls
CacheStories ==
    { [type |-> "email_story", id |-> 1, urls |-> <<"u1">>],
      [type |-> "email_story", id |-> 2, urls |-> <<"u1">>],
      [type |-> "telegram_story", id |-> 1, urls |-> <<"u1", "u2">>],
      [type |-> "telegram_story", id |-> 2, urls |-> <<"u2", "u2">>] }

EmailIds == {1, 2}

\* the tables the schema allows over CacheUrls: per URL no row, a row
\* without content, or a row with content
UrlContentTables ==
    { {[id |-> IF u = "u1" THEN 1 ELSE 2, url |-> u, target_content |-> f[u]] :
           u \in {x \in CacheUrls : f[x] # "absent"}} :
      f \in [CacheUrls -> {"absent", None, "cached"}] }

\* select(URLContent).where(URLContent.url == url)
select_url_content(table, url) == {r \in table : r.url = url}

never_hit(rows) == FALSE

\* "if url_content and url_content.target_content"
cache_hit(rows) == \E r \in rows : r.target_content # None

\* the content of the row found
cached_content(rows) == (CHOOSE r \in rows : TRUE).target_content

\* db.add(url_content) and db.flush(): the unique constraint on url makes
\* the flush fail when the table has a row of that url
add_url_content(table, url, content, id) ==
    IF select_url_content(table, url) # {}
    THEN [table |-> table, failed |-> TRUE]
    ELSE [table |-> table \cup {[id |-> id, url |-> url, target_content |-> content]},
          failed |-> FALSE]

cache_any_result(content) == TRUE

\* "if content:", the guard of "Cache the content"
cache_result(content) == content # None

NoResolution == [story |-> None]

\* The states of the cache before the runs: any table, any stored content
\* of the email stories.  steps counts the stories resolved, failed is the
\* URLs whose extraction has failed so far, last the latest resolution:
\* before and own are the table and the story's content before it,
\* requests the URLs given to extract_content and results what it
\* returned, used the content handed to the analysis.
CacheStates ==
    { [pc |-> "idle", url_contents |-> t, nextId |-> 3, target_content |-> tc,
       steps |-> 0, failed |-> {}, last |-> NoResolution] :
          t \in UrlContentTables, tc \in [EmailIds -> {None, "own"}] }

InitCache ==
    /\ db = EmptyDb
    /\ pc = "idle"
    /\ run = NoRun
    /\ now = 0
    /\ raws = NoRaw
    /\ llm = [requests |-> 0]
    /\ last = NoLast
    /\ ctx = NoCtx
    /\ dg = NoDigest
    /\ gp = NoProcess
    /\ ex = NoExtract
    /\ cache \in CacheStates
    /\ nu = NoNormalize
    /\ tx = NoTx
    /\ race = NoRace
    /\ pg = NoPaging
    /\ tg = NoCheckpoint
    /\ ing = NoIngest

Resolution(story, own, requests, results, used, raised) ==
    [story |-> story, before |-> cache.url_contents, own |-> own,
     failed_before |-> cache.failed, requests |-> requests, results |-> results,
     used |-> used, raised |-> raised]

\* process_email_stories, "Get or extract content if not already present"
\* up to "Skip stories with empty content"; content is what extract_content
\* returns when it is called.  A failed flush leaves the loop with the
\* error, and get_session rolls the session back.
ResolveEmailStory ==
    /\ cache.pc = "idle"
    /\ cache.steps < MaxResolutions
    /\ \E story \in {x \in CacheStories : x.type = "email_story"},
          content \in {None, "extracted"} :
         LET own == cache.target_content[story.id]
             url == story.urls[1]
             url_content == select_url_content(cache.url_contents, url)
             c == [cache EXCEPT !.steps = @ + 1]
         IN IF own # None
            THEN cache' = [c EXCEPT
                     !.last = Resolution(story, own, <<>>, <<>>, <<own>>, None)]
            ELSE IF cache_hit(url_content)
            THEN cache' = [c EXCEPT
                     !.target_content[story.id] = cached_content(url_content),
                     !.last = Resolution(story, own, <<>>, <<>>,
                                         <<cached_content(url_content)>>, None)]
            ELSE IF cache_result(content)
            THEN LET a == add_url_content(cache.url_contents, url, content, cache.nextId)
                 IN IF a.failed
                    THEN cache' = [c EXCEPT
                             !.pc = "aborted",
                             !.last = Resolution(story, own, <<url>>, <<content>>, <<>>,
                                                 "IntegrityError")]
                    ELSE cache' = [c EXCEPT
                             !.url_contents = a.table,
                             !.nextId = @ + 1,
                             !.target_content[story.id] = content,
                             !.failed = @ \ {url},
                             !.last = Resolution(story, own, <<url>>, <<content>>,
                                                 <<content>>, None)]
            ELSE cache' = [c EXCEPT
                     !.failed = @ \cup {url},
                     !.last = Resolution(story, own, <<url>>, <<content>>, <<>>, None)]
    /\ UNCHANGED <<db, pc, run, now, llm, last, ctx, dg, gp, ex, nu, ing, tx, race, pg, tg, raws>>

RECURSIVE ResolveUrls(_, _, _, _)
\* process_telegram_stories, "for url in story.urls": res is the table, the
\* next id, url_contents, and the requests made with their results
ResolveUrls(res, urls, k, contents) ==
    IF k > Len(urls) \/ res.raised # None THEN res
    ELSE LET url == urls[k]
             content == contents[k]
             url_content == select_url_content(res.table, url)
         IN IF url_content # {}
            THEN ResolveUrls(
                     IF cache_hit(url_content)
                     THEN [res EXCEPT !.used = Append(@, cached_content(url_content))]
                     ELSE res,
                     urls, k + 1, contents)
            ELSE LET r == [res EXCEPT !.requests = Append(@, url),
                                      !.results = Append(@, content)]
                 IN IF cache_result(content)
                    THEN LET a == add_url_content(res.table, url, content, res.nextId)
                         IN ResolveUrls(
                                IF a.failed
                                THEN [r EXCEPT !.raised = "IntegrityError"]
                                ELSE [r EXCEPT !.table = a.table, !.nextId = @ + 1,
                                               !.used = Append(@, content),
                                               !.failed = @ \ {url}],
                                urls, k + 1, contents)
                    ELSE ResolveUrls([r EXCEPT !.failed = @ \cup {url}],
                                     urls, k + 1, contents)

\* process_telegram_stories, "Get or extract content from URLs" for one
\* story; contents is what extract_content returns for each URL when it is
\* called
ResolveTelegramStory ==
    /\ cache.pc = "idle"
    /\ cache.steps < MaxResolutions
    /\ \E story \in {x \in CacheStories : x.type = "telegram_story"},
          contents \in [1..2 -> {None, "extracted"}] :
         LET res == ResolveUrls([table |-> cache.url_contents, nextId |-> cache.nextId,
                                 used |-> <<>>, requests |-> <<>>, results |-> <<>>,
                                 failed |-> cache.failed, raised |-> None],
                                story.urls, 1, contents)
         IN cache' = [cache EXCEPT
                !.steps = @ + 1,
                !.pc = IF res.raised # None THEN "aborted" ELSE "idle",
                !.url_contents = IF res.raised # None THEN @ ELSE res.table,
                !.nextId = res.nextId,
                !.failed = res.failed,
                !.last = Resolution(story, None, res.requests, res.results, res.used,
                                    res.raised)]
    /\ UNCHANGED <<db, pc, run, now, llm, last, ctx, dg, gp, ex, nu, ing, tx, race, pg, tg, raws>>

NextCache ==
    \/ ResolveEmailStory
    \/ ResolveTelegramStory

SpecCache == InitCache /\ [][NextCache]_vars

\* ------------------------------------------------------------ normalize_url
\* (processing/url_normalizer.py)
\* A URL is the sequence of the pieces of its text: the scheme, "://", the
\* pieces of the network location ("www." prefixes, the host, the port with
\* its colon), the pieces of the path ("/a", and "/" for each further
\* slash), ";p" for path parameters, "?" and the query parameters with "&"
\* between them, "#" and the fragment.
Schemes == {"http", "https"}

Hosts == {"example.com", "Example.COM"}

WwwPrefixes == {"www.", "WWW."}

Ports == {":80", ":443", ":8080", ":4430"}

Paths == {<<>>, <<"/">>, <<"/a">>, <<"/a", "/", "/">>}

PathPieces == {"/a", "/", "/x"}

Queries ==
    {<<>>, <<"b=2", "a=1">>, <<"utm_source=x">>, <<"a=1", "fbclid=y">>,
     <<"utm_source", "a=1">>}

Tails == {<<>>, <<";p">>, <<"#", "f">>}

\* the start of a TLDR tracking URL, and the slash that ends the embedded
\* target, whose pieces stand for their text with %2F and %3A for / and :
TLDR_PREFIX == "https://tracking.tldrnewsletter.com/CL0/"

TLDR_END == "/<rest>"

RECURSIVE Repeat(_, _)
Repeat(x, n) == IF n = 0 THEN <<>> ELSE <<x>> \o Repeat(x, n - 1)

RECURSIVE join(_, _)
\* sep.join(parts)
join(parts, sep) ==
    IF Len(parts) <= 1 THEN parts
    ELSE <<Head(parts), sep>> \o join(Tail(parts), sep)

\* the URLs normalized: c gives the parts the text is written from
UrlParts ==
    [scheme : Schemes, www : 0..MaxWww, prefix : WwwPrefixes, host : Hosts,
     port : Ports \cup {""}, path : Paths, query : Queries, tail : Tails]

UrlText(c) ==
    <<c.scheme, "://">> \o Repeat(c.prefix, c.www) \o <<c.host>>
    \o (IF c.port = "" THEN <<>> ELSE <<c.port>>)
    \o c.path
    \o (IF c.tail = <<";p">> THEN c.tail ELSE <<>>)
    \o (IF c.query = <<>> THEN <<>> ELSE <<"?">> \o join(c.query, "&"))
    \o (IF c.tail = <<"#", "f">> THEN c.tail ELSE <<>>)

\* the tracking URL that embeds the target
TldrText(target) == <<TLDR_PREFIX>> \o target \o <<TLDR_END>>

\* the least index of a piece of s that is in S, or Len(s) + 1
Find(s, S) ==
    IF \E k \in 1..Len(s) : s[k] \in S
    THEN CHOOSE k \in 1..Len(s) : s[k] \in S /\ \A j \in 1..(k - 1) : s[j] \notin S
    ELSE Len(s) + 1

\* urlparse(url) of a text with a scheme: the network location ends at the
\* first slash, "?" or "#"
urlparse(url) ==
    LET rest == SubSeq(url, 3, Len(url))
        f == Find(rest, {"#"})
        nofrag == SubSeq(rest, 1, f - 1)
        q == Find(nofrag, {"?"})
        noquery == SubSeq(nofrag, 1, q - 1)
        pp == Find(noquery, PathPieces)
        after == SubSeq(noquery, pp, Len(noquery))
    IN [scheme |-> url[1],
        netloc |-> SubSeq(noquery, 1, pp - 1),
        path |-> SelectSeq(after, LAMBDA t : t \in PathPieces),
        params |-> SelectSeq(after, LAMBDA t : t = ";p"),
        query |-> SubSeq(nofrag, q + 1, Len(nofrag)),
        fragment |-> SubSeq(rest, f + 1, Len(rest))]

\* urlunparse((scheme, netloc, path, params, query, fragment))
urlunparse(scheme, netloc, path, params, query, fragment) ==
    <<scheme, "://">> \o netloc \o path \o params
    \o (IF query = <<>> THEN <<>> ELSE <<"?">> \o query)
    \o (IF fragment = <<>> THEN <<>> ELSE <<"#">> \o fragment)

\* str.lower() of a piece
lower(t) ==
    CASE t = "WWW." -> "www."
      [] t = "Example.COM" -> "example.com"
      [] OTHER -> t

Map(f(_), s) == [k \in 1..Len(s) |-> f(s[k])]

\* what piece.replace(port, '') leaves of a piece of the network location
replace_port(t, port) ==
    CASE t = port -> ""
      [] t = ":8080" /\ port = ":80" -> "80"
      [] t = ":4430" /\ port = ":443" -> "0"
      [] OTHER -> t

\* netloc.replace(port, '')
replace(netloc, port) ==
    SelectSeq([k \in 1..Len(netloc) |-> replace_port(netloc[k], port)],
              LAMBDA t : t # "")

\* "port in netloc"
contains(netloc, port) == \E k \in 1..Len(netloc) : replace_port(netloc[k], port) # netloc[k]

\* "if netloc.startswith('www.'): netloc = netloc[4:]"
remove_www(netloc) ==
    IF netloc # <<>> /\ Head(netloc) = "www." THEN Tail(netloc) ELSE netloc

\* "Remove default ports"
remove_default_ports(netloc, scheme) ==
    LET n1 == IF contains(netloc, ":80") /\ scheme = "http"
              THEN replace(netloc, ":80") ELSE netloc
    IN IF contains(n1, ":443") /\ scheme = "https"
       THEN replace(n1, ":443") ELSE n1

RECURSIVE strip_slashes(_)
\* "while path.endswith('/'): path = path[:-1]"
strip_slashes(path) ==
    IF path # <<>> /\ path[Len(path)] = "/"
    THEN strip_slashes(SubSeq(path, 1, Len(path) - 1))
    ELSE path

tracking_params ==
    {"utm_source", "utm_medium", "utm_campaign", "utm_term", "utm_content",
     "fbclid", "gclid", "msclkid", "_hsenc", "_hsmi", "mc_cid", "mc_eid"}

\* the text of a query parameter up to its "=", and whether it has one
ParamName(prm) ==
    CASE prm = "utm_source=x" -> "utm_source"
      [] prm = "fbclid=y" -> "fbclid"
      [] prm = "a=1" -> "a"
      [] prm = "b=2" -> "b"
      [] OTHER -> prm

HasEquals(prm) == prm \in {"utm_source=x", "fbclid=y", "a=1", "b=2"}

\* any(p.startswith(f"{t}=") for t in tracking_params)
is_tracking(prm) == HasEquals(prm) /\ ParamName(prm) \in tracking_params

\* the order of str on the parameters
ParamRank(prm) ==
    CASE prm = "a=1" -> 1
      [] prm = "b=2" -> 2
      [] prm = "fbclid=y" -> 3
      [] prm = "utm_source" -> 4
      [] prm = "utm_source=x" -> 5

RECURSIVE sort(_)
\* params.sort()
sort(params) ==
    IF params = <<>> THEN <<>>
    ELSE LET k == CHOOSE i \in 1..Len(params) :
                      \A j \in 1..Len(params) :
                          \/ ParamRank(params[i]) < ParamRank(params[j])
                          \/ ParamRank(params[i]) = ParamRank(params[j]) /\ i <= j
         IN <<params[k]>>
            \o sort(SubSeq(params, 1, k - 1) \o SubSeq(params, k + 1, Len(params)))

\* normalize_url from "Parse URL" on
canonical(url) ==
    LET parsed == urlparse(url)
        netloc == remove_default_ports(remove_www(Map(lower, parsed.netloc)),
                                       parsed.scheme)
        stripped == strip_slashes(parsed.path)
        path == IF stripped = <<>> THEN <<"/">> ELSE stripped
        params == SelectSeq(parsed.query, LAMBDA t : t # "&")
        kept == SelectSeq(params, LAMBDA t : ~is_tracking(t))
        query == IF parsed.query # <<>> THEN join(sort(kept), "&") ELSE <<>>
    IN urlunparse(parsed.scheme, netloc, path, <<>>, query, <<>>)

\* "Handle TLDR newsletter tracking URLs"
unwrap_tldr(url) ==
    IF Head(url) = TLDR_PREFIX /\ \E k \in 2..Len(url) : url[k] = TLDR_END
    THEN LET target_url == SubSeq(url, 2, Find(url, {TLDR_END}) - 1)
         IN IF target_url # <<>> /\ Head(target_url) \in {"http", "https"}
            THEN target_url ELSE url
    ELSE url

\* What page.goto brings: the same URL or another one with an OK response,
\* a response that is not OK, no response, a timeout, another Playwright
\* error.
REDIRECT_TARGET == <<"https", "://", "final.example", "/x">>

Navigations == {"same", "redirected", "not_ok", "no_response", "TimeoutError", "PlaywrightError"}

get_final_url_uncaught(url, navigation) ==
    CASE navigation = "same" -> [raised |-> None, value |-> url]
      [] navigation = "redirected" -> [raised |-> None, value |-> REDIRECT_TARGET]
      [] navigation \in {"not_ok", "no_response"} -> [raised |-> None, value |-> <<>>]
      [] OTHER -> [raised |-> navigation, value |-> <<>>]

\* get_final_url: the final URL, or nothing (the empty text stands for
\* None); both exceptions are caught
get_final_url(url, navigation) ==
    CASE navigation = "same" -> [raised |-> None, value |-> url]
      [] navigation = "redirected" -> [raised |-> None, value |-> REDIRECT_TARGET]
      [] navigation \in {"not_ok", "no_response"} -> [raised |-> None, value |-> <<>>]
      [] navigation \in {"TimeoutError", "PlaywrightError"} ->
             [raised |-> None, value |-> <<>>]

\* normalize_url: [raised, value]
normalize_url(url, navigation) ==
    IF url = <<>> THEN [raised |-> None, value |-> url]
    ELSE LET u1 == unwrap_tldr(url)
             final_url == get_final_url(u1, navigation)
         IN IF final_url.raised # None
            THEN [raised |-> final_url.raised, value |-> <<>>]
            ELSE [raised |-> None,
                  value |-> canonical(IF final_url.value # <<>>
                                      THEN final_url.value ELSE u1)]

\* The calls of normalize_url: c is the parts of the URL, wrapped whether
\* it is given inside a TLDR tracking URL (then without query and tail),
\* once the result and again the result of normalizing the result.
NormalizeCalls ==
    { [pc |-> "call", c |-> c, wrapped |-> w,
       url |-> IF w THEN TldrText(UrlText(c)) ELSE UrlText(c),
       navigation |-> None, raised |-> None, once |-> <<>>, again |-> <<>>] :
          c \in UrlParts, w \in BOOLEAN }
    \ { x \in { [pc |-> "call", c |-> c, wrapped |-> TRUE,
                 url |-> TldrText(UrlText(c)),
                 navigation |-> None, raised |-> None, once |-> <<>>, again |-> <<>>] :
                    c \in UrlParts } : x.c.query # <<>> \/ x.c.tail # <<>> }

InitNormalize ==
    /\ db = EmptyDb
    /\ pc = "idle"
    /\ run = NoRun
    /\ now = 0
    /\ raws = NoRaw
    /\ llm = [requests |-> 0]
    /\ last = NoLast
    /\ ctx = NoCtx
    /\ dg = NoDigest
    /\ gp = NoProcess
    /\ ex = NoExtract
    /\ cache = NoCache
    /\ nu \in NormalizeCalls
    /\ tx = NoTx
    /\ race = NoRace
    /\ pg = NoPaging
    /\ tg = NoCheckpoint
    /\ ing = NoIngest

\* one call of normalize_url
Normalize ==
    /\ nu.pc = "call"
    /\ \E navigation \in Navigations :
         LET r == normalize_url(nu.url, navigation)
         IN nu' = [nu EXCEPT !.pc = IF r.raised # None THEN "raised" ELSE "once",
                             !.navigation = navigation,
                             !.raised = r.raised,
                             !.once = r.value]
    /\ UNCHANGED <<db, pc, run, now, llm, last, ctx, dg, gp, ex, cache, ing, tx, race, pg, tg, raws>>

\* normalize_url of the result, with no redirect
NormalizeAgain ==
    /\ nu.pc = "once"
    /\ LET r == normalize_url(nu.once, "same")
       IN nu' = [nu EXCEPT !.pc = "again", !.again = r.value]
    /\ UNCHANGED <<db, pc, run, now, llm, last, ctx, dg, gp, ex, cache, ing, tx, race, pg, tg, raws>>

NextNormalize ==
    \/ Normalize
    \/ NormalizeAgain

SpecNormalize == InitNormalize /\ [][NextNormalize]_vars

\* ---------------------------------------------------------------- ingestion
\* (scripts/hn_get_new_stories.py, data_providers/telegram/__init__.py,
\* scripts/email_process_digests.py)
\* The tables are sets of rows; stories has the Hacker News item id as its
\* primary key, the other tables a generated id (0 stands for an id not
\* yet given).  digest_emails.message_id, telegram_stories (channel_id,
\* message_id) and digest_links (email_id, url) are unique; email_stories.url
\* is not.
EmptyTables ==
    [stories |-> {}, telegram_stories |-> {}, digest_emails |-> {},
     digest_links |-> {}, email_stories |-> {}, nextId |-> 1, failed |-> FALSE]

\* the lists fetch_story_ids can return
StoryIdLists == {<<1>>, <<1, 2>>, <<2, 1, 2>>}

\* what fetch_story_info brings for an item: the item, a dead item, an item
\* without title, or a ClientError
StoryInfos == {"ok", "dead", "no_title", "ClientError"}

Channels == {"c1", "c2"}

\* the ids of the messages get_channel_messages returns
MessageLists == {<<1>>, <<1, 2>>, <<2, 2>>}

\* the message ids get_digest_emails returns
EmailLists == {<<"m1">>, <<"m1", "m2">>, <<"m2", "m2">>}

LinkA == <<"http", "://", "www.", "example.com", "/a", "?", "utm_source=x">>

LinkB == <<"http", "://", "example.com", ":80", "/a", "/">>

LinkC == <<"https", "://", "example.com", "/x">>

\* provider.extract_links_from_content: the URLs of the links of an email;
\* the two links of m1 normalize to one URL, which is also a link of m2
extract_links_from_content(message_id) ==
    IF message_id = "m1" THEN <<LinkA, LinkB>> ELSE <<LinkB, LinkC>>

\* normalize_url_async(url): the text normalize_url returns
normalize_url_async(url, navigation) == normalize_url(url, navigation).value

\* db.get(Story, new_story_id)
db_get(t, id) == {r \in t.stories : r.id = id}

\* "Check if message already exists"
existing_message(t, channel, message_id) ==
    {r \in t.telegram_stories : r.channel_id = channel /\ r.message_id = message_id}

\* "Check if message exists"
existing_email(t, message_id) == {r \in t.digest_emails : r.message_id = message_id}

\* "Check if link already exists for this email"
existing_link(t, email_id, url) ==
    {r \in t.digest_links : r.email_id = email_id /\ r.url = url}

no_existing_story(t, url) == {}

\* "Check if story with this URL already exists"
existing_story(t, url) == {r \in t.email_stories : r.url = url}

\* the flush of a new row: it fails when the table has a row with the same
\* unique key
add_story(t, id) ==
    IF \E r \in t.stories : r.id = id THEN [t EXCEPT !.failed = TRUE]
    ELSE [t EXCEPT !.stories = @ \cup {[id |-> id]}]

add_telegram_story(t, channel, message_id) ==
    IF \E r \in t.telegram_stories : r.channel_id = channel /\ r.message_id = message_id
    THEN [t EXCEPT !.failed = TRUE]
    ELSE [t EXCEPT !.telegram_stories = @ \cup
                       {[id |-> t.nextId, channel_id |-> channel, message_id |-> message_id]},
                   !.nextId = @ + 1]

add_email(t, message_id) ==
    IF \E r \in t.digest_emails : r.message_id = message_id
    THEN [t EXCEPT !.failed = TRUE]
    ELSE [t EXCEPT !.digest_emails = @ \cup {[id |-> t.nextId, message_id |-> message_id]},
                   !.nextId = @ + 1]

add_email_story(t, url, email_id) ==
    [t EXCEPT !.email_stories = @ \cup
                  {[id |-> t.nextId, url |-> url, source_email_id |-> email_id]},
              !.nextId = @ + 1]

add_link(t, email_id, url, story_id) ==
    IF \E r \in t.digest_links : r.email_id = email_id /\ r.url = url
    THEN [t EXCEPT !.failed = TRUE]
    ELSE [t EXCEPT !.digest_links = @ \cup
                       {[id |-> t.nextId, email_id |-> email_id, url |-> url,
                         story_id |-> story_id]},
                   !.nextId = @ + 1]

RECURSIVE get_new_stories(_, _, _, _)
\* get_new_stories, "for new_story_id in new_story_ids": comm is what has
\* been committed; a failed flush rolls back and ends the run
get_new_stories(comm, new_story_ids, k, info) ==
    IF k > Len(new_story_ids) THEN comm
    ELSE LET new_story_id == new_story_ids[k]
         IN IF db_get(comm, new_story_id) # {} \/ info[new_story_id] # "ok"
            THEN get_new_stories(comm, new_story_ids, k + 1, info)
            ELSE LET t == add_story(comm, new_story_id)
                 IN IF t.failed THEN [comm EXCEPT !.failed = TRUE]
                    ELSE get_new_stories(t, new_story_ids, k + 1, info)

RECURSIVE save_messages(_, _, _, _)
\* TelegramProvider.save_messages, "for message in messages": sess is the
\* session's view, committed as a whole at the end
save_messages(sess, channel, messages, k) ==
    IF sess.failed \/ k > Len(messages) THEN sess
    ELSE save_messages(
             IF existing_message(sess, channel, messages[k]) = {}
             THEN add_telegram_story(sess, channel, messages[k])
             ELSE sess,
             channel, messages, k + 1)

RECURSIVE process_links(_, _, _, _, _)
\* process_links: the first statement is built before the email has been
\* flushed, with no email id
process_links(sess, email_id, links, k, navigation) ==
    IF sess.failed \/ k > Len(links) THEN sess
    ELSE LET normalized_url == normalize_url_async(links[k], navigation)
             found == existing_link(sess, IF k = 1 THEN 0 ELSE email_id, normalized_url)
             story == existing_story(sess, normalized_url)
         IN IF found # {}
            THEN process_links(sess, email_id, links, k + 1, navigation)
            ELSE LET s1 == IF story # {} THEN sess
                           ELSE add_email_story(sess, normalized_url, email_id)
                     story_id == IF story # {} THEN (CHOOSE r \in story : TRUE).id
                                 ELSE sess.nextId
                 IN process_links(add_link(s1, email_id, normalized_url, story_id),
                                  email_id, links, k + 1, navigation)

\* process_message: the session after it, or the session unchanged when
\* the email exists or its details are missing
process_message(sess, message_id, details, navigation) ==
    IF existing_email(sess, message_id) # {} \/ ~details THEN sess
    ELSE LET s1 == add_email(sess, message_id)
         IN IF s1.failed THEN s1
            ELSE process_links(s1, sess.nextId, extract_links_from_content(message_id),
                               1, navigation)

RECURSIVE process_digests(_, _, _, _, _)
\* main of email_process_digests, "for message_data in messages", with the
\* commit after each email; an exception leaves the block and the
\* uncommitted rows are rolled back
process_digests(comm, messages, k, details, navigation) ==
    IF k > Len(messages) THEN comm
    ELSE LET s1 == process_message(comm, messages[k], details[messages[k]], navigation)
         IN IF s1.failed
            THEN session_scope_exit([comm EXCEPT !.failed = TRUE], s1, TRUE)
            ELSE process_digests(s1, messages, k + 1, details, navigation)

\* no fetcher has run
NoFetch == [source |-> None]

\* The state of the ingestion: the tables, the number of runs, and the
\* latest run with the tables before it.
InitIngest ==
    /\ db = EmptyDb
    /\ pc = "idle"
    /\ run = NoRun
    /\ now = 0
    /\ raws = NoRaw
    /\ llm = [requests |-> 0]
    /\ last = NoLast
    /\ ctx = NoCtx
    /\ dg = NoDigest
    /\ gp = NoProcess
    /\ ex = NoExtract
    /\ cache = NoCache
    /\ nu = NoNormalize
    /\ tx = NoTx
    /\ race = NoRace
    /\ pg = NoPaging
    /\ tg = NoCheckpoint
    /\ ing = [pc |-> "idle", tables |-> EmptyTables, runs |-> 0,
              before |-> EmptyTables, fetch |-> NoFetch]

AfterRun(t, fetch) ==
    /\ ing' = [ing EXCEPT !.tables = [t EXCEPT !.failed = FALSE],
                          !.pc = IF t.failed THEN "raised" ELSE "idle",
                          !.runs = @ + 1,
                          !.before = ing.tables,
                          !.fetch = fetch]
    /\ UNCHANGED <<db, pc, run, now, llm, last, ctx, dg, gp, ex, cache, nu, tx, race, pg, tg, raws>>

\* one run of hn_get_new_stories
FetchStories ==
    /\ ing.pc = "idle"
    /\ ing.runs < MaxIngestRuns
    /\ \E new_story_ids \in StoryIdLists, info \in [{1, 2} -> StoryInfos] :
           AfterRun(get_new_stories(ing.tables, new_story_ids, 1, info),
                    [source |-> "hacker_news", items |-> new_story_ids, channel |-> None,
                     stored |-> {i \in Range(new_story_ids) : info[i] = "ok"}])

\* one call of TelegramProvider.save_messages
SaveMessages ==
    /\ ing.pc = "idle"
    /\ ing.runs < MaxIngestRuns
    /\ \E channel \in Channels, messages \in MessageLists :
           LET sess == save_messages(ing.tables, channel, messages, 1)
           IN AfterRun(IF sess.failed THEN [ing.tables EXCEPT !.failed = TRUE] ELSE sess,
                       [source |-> "telegram", items |-> messages, channel |-> channel,
                        stored |-> Range(messages)])

\* one run of email_process_digests
ProcessDigests ==
    /\ ing.pc = "idle"
    /\ ing.runs < MaxIngestRuns
    /\ \E messages \in EmailLists, details \in [{"m1", "m2"} -> BOOLEAN],
          navigation \in {"same", "not_ok"} :
           AfterRun(process_digests(ing.tables, messages, 1, details, navigation),
                    [source |-> "gmail", items |-> messages, channel |-> None,
                     stored |-> {i \in Range(messages) : details[i]}])

NextIngest ==
    \/ FetchStories
    \/ SaveMessages
    \/ ProcessDigests

SpecIngest == InitIngest /\ [][NextIngest]_vars

\* ------------------------------------------- the persistence, step by step
\* The persistence half of the loop body of process_email_stories (lines
\* 134-194), one statement group at a time.  tx.st is the unit of work:
\* st.comm is what a reader in another session (the read API) sees while
\* the item is being written.
TxStory == 2

\* the time of the earlier run and the time of this one
TxEarlier == 1

TxNow == 2

\* the responses: a tag new to the vocabulary, a required tag, or none, and
\* no entity, one new entity or two
TxCompletions ==
    { [kind |-> "document", tags |-> t, entities |-> e] :
          t \in { <<>>, <<[name |-> "rust", score |-> 40]>>,
                  <<[name |-> "machine learning", score |-> 90]>> },
          e \in SeqsUpTo({AcmeCompany,
                          [name |-> "zed", type |-> "product",
                           score |-> NumScore(100), context |-> "ctx"]}, 2) }

\* the database before the item: with the required tags only, or with the
\* story processed by an earlier run
TxStores ==
    LET fresh == [ensure_required_tags(EmptyDb) EXCEPT !.target_content = {TxStory}]
        earlier == process_content(TRUE, TRUE, FALSE,
                                   [kind |-> "document", tags |-> <<>>,
                                    entities |-> <<AcmeCompany>>])
    IN {fresh,
        PersistStory([sess |-> fresh, comm |-> fresh, failed |-> FALSE],
                     TxStory, {}, FALSE, earlier, TxEarlier).comm}

InitTx ==
    /\ db = EmptyDb
    /\ pc = "idle"
    /\ run = NoRun
    /\ now = 0
    /\ raws = NoRaw
    /\ llm = [requests |-> 0]
    /\ last = NoLast
    /\ ctx = NoCtx
    /\ dg = NoDigest
    /\ gp = NoProcess
    /\ ex = NoExtract
    /\ cache = NoCache
    /\ nu = NoNormalize
    /\ ing = NoIngest
    /\ race = NoRace
    /\ pg = NoPaging
    /\ tg = NoCheckpoint
    /\ \E store \in TxStores, force_regenerate \in BOOLEAN, completion \in TxCompletions :
           tx = [pc |-> "begin", force |-> force_regenerate,
                 st |-> [sess |-> store, comm |-> store, failed |-> FALSE],
                 before |-> store,
                 analysis |-> process_content(TRUE, TRUE, FALSE, completion),
                 item_id |-> 0, k |-> 1, commits |-> 0]

TxStep(t) ==
    /\ tx' = [t EXCEPT !.commits = IF t.st.comm # tx.st.comm THEN @ + 1 ELSE @]
    /\ UNCHANGED <<db, pc, run, now, llm, last, ctx, dg, gp, ex, cache, nu, ing, race,
                   pg, tg, raws>>

\* lines 85-93 and 134-162: the lookup of the ProcessedItem, "continue" when
\* there is one and force_regenerate is off, the deletions and the update
\* of the force_regenerate branch, the insert of a new ProcessedItem
TxProcessedItem ==
    /\ tx.pc = "begin"
    /\ LET existing == ProcessedOf(tx.st.sess, TxStory)
           p == CHOOSE x \in existing : TRUE
           d1 == IF tx.force /\ existing # {}
                 THEN ReplaceExisting(tx.st.sess, p, tx.analysis.summary, TxNow)
                 ELSE tx.st.sess
           d2 == IF MissingProcessedItem(existing)
                 THEN InsertProcessed(d1, TxStory, tx.analysis.summary, TxNow)
                 ELSE d1
       IN IF existing # {} /\ ~tx.force
          THEN TxStep([tx EXCEPT !.pc = "skipped"])
          ELSE TxStep([tx EXCEPT !.pc = "tags", !.st.sess = d2, !.k = 1,
                                 !.item_id = IF MissingProcessedItem(existing)
                                             THEN d1.nextId ELSE p.id])

\* lines 173-180, one pass of "for tag_name, score in tag_dict.items()"
TxTagRelation ==
    /\ tx.pc = "tags"
    /\ LET td == tag_dict(tx.analysis.tags)
           st1 == get_or_create_tag(tx.st, td[tx.k].name)
           st2 == [st1 EXCEPT !.sess.tagRel = @ \cup
                       {[item_id |-> tx.item_id, tag |-> td[tx.k].name,
                         relation_value |-> td[tx.k].score]}]
       IN TxStep([tx EXCEPT !.st = st2,
                            !.k = IF tx.k = Len(td) THEN 1 ELSE @ + 1,
                            !.pc = IF tx.k = Len(td) THEN "entities" ELSE @])

\* lines 183-191, one pass of "for name, entity_type, score, context in
\* entities"
TxEntityRelation ==
    /\ tx.pc = "entities"
    /\ tx.k <= Len(tx.analysis.entities)
    /\ LET e == tx.analysis.entities[tx.k]
           st1 == get_or_create_entity(tx.st, e.name, e.type)
           st2 == [st1 EXCEPT !.sess.entRel = @ \cup
                       {[item_id |-> tx.item_id, name |-> e.name, type |-> e.type,
                         relation_value |-> e.score, context |-> e.context]}]
       IN TxStep([tx EXCEPT !.st = st2, !.k = @ + 1])

\* line 194: db.commit()
TxCommit ==
    /\ tx.pc = "entities"
    /\ tx.k > Len(tx.analysis.entities)
    /\ TxStep([tx EXCEPT !.st = Commit(tx.st), !.pc = "committed"])

NextTx ==
    \/ TxProcessedItem
    \/ TxTagRelation
    \/ TxEntityRelation
    \/ TxCommit

SpecTx == InitTx /\ [][NextTx]_vars

\* ------------------------------------------- two runs and one vocabulary
\* Two pipeline runs, each in its own session, calling get_or_create_tag and
\* get_or_create_entity (db/operations.py) for the names of their
\* responses.  item_tags.name is unique; item_entities has an index on
\* (name, type) that is not unique.  A statement sees what has been
\* committed (and its own session's rows); a commit that breaks the unique
\* constraint raises IntegrityError, which no caller handles.
Runs == {1, 2}

RustTag == [table |-> "item_tags", name |-> "rust", type |-> None]

AcmeEntity == [table |-> "item_entities", name |-> "acme", type |-> "company"]

\* the get-or-create calls of one run, in order
CallLists == {<<RustTag>>, <<AcmeEntity>>, <<RustTag, AcmeEntity>>, <<AcmeEntity, RustTag>>}

\* the vocabulary before the runs: empty, or with the tag
Vocabularies == {{}, {[id |-> 1, table |-> "item_tags", name |-> "rust", type |-> None]}}

InitRace ==
    /\ db = EmptyDb
    /\ pc = "idle"
    /\ run = NoRun
    /\ now = 0
    /\ raws = NoRaw
    /\ llm = [requests |-> 0]
    /\ last = NoLast
    /\ ctx = NoCtx
    /\ dg = NoDigest
    /\ gp = NoProcess
    /\ ex = NoExtract
    /\ cache = NoCache
    /\ nu = NoNormalize
    /\ ing = NoIngest
    /\ tx = NoTx
    /\ pg = NoPaging
    /\ tg = NoCheckpoint
    /\ \E calls \in [Runs -> CallLists], rows \in Vocabularies :
           race = [pc |-> [r \in Runs |-> "select"],
                   calls |-> calls,
                   k |-> [r \in Runs |-> 1],
                   found |-> [r \in Runs |-> {}],
                   returned |-> [r \in Runs |-> <<>>],
                   rows |-> rows,
                   nextId |-> 2]

RaceStep(r) ==
    UNCHANGED <<db, pc, run, now, llm, last, ctx, dg, gp, ex, cache, nu, ing, tx, pg, tg, raws>>

\* the row a finished call returns, and the run's next call
Returned(g, r, row) ==
    [g EXCEPT !.returned[r] = Append(@, row),
              !.k[r] = @ + 1,
              !.pc[r] = IF g.k[r] = Len(g.calls[r]) THEN "done" ELSE "select"]

\* scalar_one_or_none() of the select statement
select_one_or_none(rows, call) ==
    {x \in rows : x.table = call.table /\ x.name = call.name /\ x.type = call.type}

\* "stmt = select(...)", "db.execute(stmt).scalar_one_or_none()", and
\* "return tag" when a row was found
Lookup(r) ==
    /\ race.pc[r] = "select"
    /\ LET call == race.calls[r][race.k[r]]
           rows == select_one_or_none(race.rows, call)
       IN IF Cardinality(rows) > 1
          THEN race' = [race EXCEPT !.pc[r] = "raised"]
          ELSE IF rows # {}
          THEN race' = Returned(race, r, CHOOSE x \in rows : TRUE)
          ELSE race' = [race EXCEPT !.pc[r] = "create"]
    /\ RaceStep(r)

\* the unique constraint of item_tags.name
unique_violation(rows, call) ==
    call.table = "item_tags" /\ \E x \in rows : x.table = call.table /\ x.name = call.name

\* "if not tag:" db.add(tag), db.commit(), "return tag"
Create(r) ==
    /\ race.pc[r] = "create"
    /\ LET call == race.calls[r][race.k[r]]
           row == [id |-> race.nextId, table |-> call.table, name |-> call.name,
                   type |-> call.type]
       IN IF unique_violation(race.rows, call)
          THEN race' = [race EXCEPT !.pc[r] = "raised"]
          ELSE race' = [Returned(race, r, row) EXCEPT !.rows = @ \cup {row},
                                                      !.nextId = @ + 1]
    /\ RaceStep(r)

NextRace ==
    \/ \E r \in Runs : Lookup(r)
    \/ \E r \in Runs : Create(r)

SpecRace == InitRace /\ [][NextRace]_vars

\* ------------------------------------------------ the pages of a run
\* The batch loop of process_stories / process_email_stories /
\* process_telegram_stories over a raw table of any size: items 1..n of one
\* source, of which the items in empty never yield content.  rows is the
\* processed_stories table, one row [id, item] per ProcessedItem.  The batch
\* statement has no ORDER BY; the rows come in one of two orders.
TableSizes == {0, 1, batch_size, MaxPages * batch_size + 2}

\* the items without usable content: none, or every third
EmptyPatterns(n) == {{}, {i \in 1..n : i % 3 = 0}}

RowOrders == {"ascending", "descending"}

HasProcessedItem(rows, i) == \E p \in rows : p.item = i

\* the rows of the statement before limit and offset
Unpaged(g, force) == {i \in 1..g.n : force \/ ~HasProcessedItem(g.rows, i)}

\* the k-th row, from 1, of the set S in the given order
RowAt(S, order, k) ==
    CHOOSE i \in S :
        Cardinality({j \in S : IF order = "ascending" THEN j < i ELSE j > i}) = k - 1

\* stmt.limit(batch_size).offset(offset)
Page(g) ==
    LET S == Unpaged(g, g.force)
        m == Cardinality(S) - g.offset
        len == IF m < 0 THEN 0 ELSE IF m > batch_size THEN batch_size ELSE m
    IN [k \in 1..len |-> RowAt(S, g.order, g.offset + k)]

InitPaging ==
    /\ db = EmptyDb
    /\ pc = "idle"
    /\ run = NoRun
    /\ now = 0
    /\ raws = NoRaw
    /\ llm = [requests |-> 0]
    /\ last = NoLast
    /\ ctx = NoCtx
    /\ dg = NoDigest
    /\ gp = NoProcess
    /\ ex = NoExtract
    /\ cache = NoCache
    /\ nu = NoNormalize
    /\ ing = NoIngest
    /\ tx = NoTx
    /\ race = NoRace
    /\ tg = NoCheckpoint
    /\ \E n \in TableSizes, order \in RowOrders :
         \E empty \in EmptyPatterns(n) :
           pg = [pc |-> "idle", n |-> n, empty |-> empty, order |-> order,
                 rows |-> {}, nextId |-> 1, runs |-> 0, force |-> FALSE,
                 offset |-> 0, stories |-> <<>>, pos |-> 1,
                 before |-> {}, analysed |-> {}, crashed |-> FALSE]

PagingStep ==
    UNCHANGED <<db, pc, run, now, llm, last, ctx, dg, gp, ex, cache, nu, ing, tx, race, tg, raws>>

\* the start of a run: "batch_size = 100", "offset = 0"
BeginRun(force) ==
    /\ pg.runs < MaxPagedRuns
    /\ pg' = [pg EXCEPT !.pc = "select", !.runs = @ + 1, !.force = force,
                        !.offset = 0, !.stories = <<>>, !.pos = 1,
                        !.before = {p.item : p \in pg.rows}, !.analysed = {}]
    /\ PagingStep

StartPaged ==
    /\ pg.pc \in {"idle", "finished"}
    /\ \E force \in BOOLEAN : BeginRun(force)

\* "Get batch of stories", "if not stories: break"
SelectPage ==
    /\ pg.pc = "select"
    /\ LET stories == Page(pg)
       IN pg' = [pg EXCEPT !.stories = stories, !.pos = 1,
                           !.pc = IF stories = <<>> THEN "finished" ELSE "loop"]
    /\ PagingStep

\* one pass of "for story in stories": the lookup of the ProcessedItem,
\* "continue" when there is one and force_regenerate is off or when the
\* story has no content, else the analysis and the commit of the item
ProcessPagedItem ==
    /\ pg.pc = "loop"
    /\ pg.pos <= Len(pg.stories)
    /\ LET story == pg.stories[pg.pos]
           processed_item == HasProcessedItem(pg.rows, story)
       IN IF (processed_item /\ ~pg.force) \/ story \in pg.empty
          THEN pg' = [pg EXCEPT !.pos = @ + 1]
          ELSE pg' = [pg EXCEPT !.pos = @ + 1,
                                !.analysed = @ \cup {story},
                                !.rows = IF processed_item THEN @
                                         ELSE @ \cup {[id |-> pg.nextId, item |-> story]},
                                !.nextId = IF processed_item THEN @ ELSE @ + 1]
    /\ PagingStep

same_offset(offset) == offset

\* "offset += batch_size"
next_offset(offset) == offset + batch_size

\* "Move to next batch"
NextPage ==
    /\ pg.pc = "loop"
    /\ pg.pos > Len(pg.stories)
    /\ pg' = [pg EXCEPT !.offset = next_offset(@), !.pc = "select"]
    /\ PagingStep

NextPaging ==
    \/ StartPaged
    \/ SelectPage
    \/ ProcessPagedItem
    \/ NextPage

SpecPaging == InitPaging /\ [][NextPaging]_vars

\* every step of a run is taken as long as the process runs
SpecPagingFair ==
    /\ SpecPaging
    /\ WF_vars(SelectPage)
    /\ WF_vars(ProcessPagedItem)
    /\ WF_vars(NextPage)

\* the process dies in its first run, between two items; what it has
\* committed stays
Crash ==
    /\ pg.pc \in {"select", "loop"}
    /\ ~pg.crashed
    /\ pg' = [pg EXCEPT !.pc = "crashed", !.crashed = TRUE]
    /\ PagingStep

\* the script is started again, without force_regenerate
Restart ==
    /\ pg.pc = "crashed"
    /\ BeginRun(FALSE)

NextResume ==
    \/ \E force \in BOOLEAN : pg.pc = "idle" /\ BeginRun(force)
    \/ SelectPage
    \/ ProcessPagedItem
    \/ NextPage
    \/ Crash
    \/ Restart

SpecResume == InitPaging /\ [][NextResume]_vars

\* ------------------------------------------------ the raw rows under enrichment
\* The rows of stories, email_stories and telegram_stories with their
\* columns, and every assignment the three loops make to an attribute of
\* story: story.target_content (email_process_stories.py:103, 108) and
\* story.urls (telegram_process_stories.py:117).  A message's content is a
\* sequence of words and URLs.
MessageTexts == {<<"word">>, <<"word", "http://u1">>, <<"http://u1", "word", "http://u2">>}

IsUrl(token) == token \in {"http://u1", "http://u2"}

RECURSIVE findall(_)
\* re.findall(url_pattern, content)
findall(content) ==
    IF content = <<>> THEN <<>>
    ELSE (IF IsUrl(Head(content)) THEN <<Head(content)>> ELSE <<>>) \o findall(Tail(content))

\* a nullable ARRAY(String) column: NULL, or a list
NullList == [null |-> TRUE, list |-> <<>>]

ListOf(list) == [null |-> FALSE, list |-> list]

\* the tables the fetchers can have left: a Hacker News story with or
\* without text, an email story with or without extracted content, a
\* Telegram story with its urls column null, empty or filled
RawTables ==
    { [story |-> [id |-> 1, url |-> "http://u1", title |-> "t", content |-> c,
                  target_content |-> None, posted_at |-> 1, user |-> "u"],
       email_story |-> [id |-> 1, url |-> "http://u1", title |-> "t",
                        discovered_at |-> 1, source_email_id |-> 1,
                        target_content |-> tc],
       telegram_story |-> [id |-> 1, channel_id |-> "c1", message_id |-> "1",
                           content |-> text, urls |-> urls, posted_at |-> 1,
                           discovered_at |-> 1]] :
          c \in {None, "text"}, tc \in {None, "own"}, text \in MessageTexts,
          urls \in {NullList, ListOf(<<>>), ListOf(<<"http://u1">>)} }

InitRaw ==
    /\ db = EmptyDb
    /\ pc = "idle"
    /\ run = NoRun
    /\ now = 0
    /\ llm = [requests |-> 0]
    /\ last = NoLast
    /\ ctx = NoCtx
    /\ dg = NoDigest
    /\ gp = NoProcess
    /\ ex = NoExtract
    /\ cache = NoCache
    /\ nu = NoNormalize
    /\ ing = NoIngest
    /\ tx = NoTx
    /\ race = NoRace
    /\ pg = NoPaging
    /\ tg = NoCheckpoint
    /\ \E rows \in RawTables, cached \in {None, "cached"} :
           raws = [pc |-> "idle", rows |-> rows, cached |-> cached, steps |-> 0,
                   source |-> None]

RawStep(source, rows, cached) ==
    /\ raws.steps < MaxEnrichments
    /\ raws' = [raws EXCEPT !.rows = rows, !.cached = cached, !.steps = @ + 1,
                            !.source = source]
    /\ UNCHANGED <<db, pc, run, now, llm, last, ctx, dg, gp, ex, cache, nu, ing, tx,
                   race, pg, tg>>

\* Python truthiness of a text, and of a list column
NotEmpty(v) == v # None /\ v # ""

HasUrls(urls) == urls.list # <<>>

set_title(story, content) == [story EXCEPT !.title = content]

\* "story.target_content = ..."
set_target_content(story, content) == [story EXCEPT !.target_content = content]

\* "story.urls = urls"
set_urls(story, urls) == [story EXCEPT !.urls = urls]

\* process_stories, one pass of the loop: the story is read only
EnrichStory ==
    RawStep("hacker_news_story", raws.rows, raws.cached)

\* process_email_stories, lines 96-119: the content of the URLContent row,
\* or what extract_content returns, is attached to the story
EnrichEmailStory ==
    \E content \in {None, "extracted"} :
        LET story == raws.rows.email_story
        IN IF ~NotEmpty(story.target_content) /\ NotEmpty(story.url)
           THEN IF raws.cached # None
                THEN RawStep("email_story",
                             [raws.rows EXCEPT
                                 !.email_story = set_target_content(story, raws.cached)],
                             raws.cached)
                ELSE IF content # None
                THEN RawStep("email_story",
                             [raws.rows EXCEPT
                                 !.email_story = set_target_content(story, content)],
                             content)
                ELSE RawStep("email_story", raws.rows, raws.cached)
           ELSE RawStep("email_story", raws.rows, raws.cached)

\* process_telegram_stories, lines 114-147: the urls column is filled from
\* the message when it is empty; URL contents go to the cache only
EnrichTelegramStory ==
    \E content \in {None, "extracted"} :
        LET story == raws.rows.telegram_story
            s1 == IF ~HasUrls(story.urls)
                  THEN set_urls(story, ListOf(findall(story.content)))
                  ELSE story
        IN RawStep("telegram_story",
                   [raws.rows EXCEPT !.telegram_story = s1],
                   IF HasUrls(s1.urls) /\ raws.cached = None THEN content
                   ELSE raws.cached)

NextRaw ==
    \/ EnrichStory
    \/ EnrichEmailStory
    \/ EnrichTelegramStory

SpecRaw == InitRaw /\ [][NextRaw]_vars

\* ------------------------------------------------ the Telegram checkpoint
\* scripts/telegram_get_new_stories.py for one channel whose messages have
\* the ids 1..tg.top.  telegram_stories.message_id is a String column, so
\* func.max compares the ids as texts.
FETCH_LIMIT == 100

RECURSIVE Digits(_)
\* str(message.id): the decimal digits of the id
Digits(n) == IF n < 10 THEN <<n>> ELSE Append(Digits(n \div 10), n % 10)

\* a < b for two texts of digits
TextLess(a, b) ==
    \E k \in 1..Len(b) :
        /\ \A j \in 1..(k - 1) : j <= Len(a) /\ a[j] = b[j]
        /\ \/ k > Len(a)
           \/ a[k] < b[k]

\* max as numbers
numeric_max(ids) == CHOOSE x \in ids : \A y \in ids : y <= x

\* func.max(TelegramStory.message_id): max as texts
text_max(ids) ==
    CHOOSE x \in ids : \A y \in ids : y = x \/ TextLess(Digits(y), Digits(x))

\* get_latest_message_id: "int(result) if result else 0"
get_latest_message_id(t, channel) ==
    LET ids == {r.message_id : r \in {x \in t.telegram_stories : x.channel_id = channel}}
    IN IF ids = {} THEN 0 ELSE text_max(ids)

\* provider.get_channel_messages(channel, limit=100, min_id=latest_id), with
\* reverse=True: the oldest messages above min_id, up to the limit
get_channel_messages(top, min_id) ==
    [k \in 1..(IF top - min_id > FETCH_LIMIT THEN FETCH_LIMIT
               ELSE IF top > min_id THEN top - min_id ELSE 0) |-> min_id + k]

\* the numbers of messages posted at once
PostSizes == {10, 100}

InitCheckpoint ==
    /\ db = EmptyDb
    /\ pc = "idle"
    /\ run = NoRun
    /\ now = 0
    /\ raws = NoRaw
    /\ llm = [requests |-> 0]
    /\ last = NoLast
    /\ ctx = NoCtx
    /\ dg = NoDigest
    /\ gp = NoProcess
    /\ ex = NoExtract
    /\ cache = NoCache
    /\ nu = NoNormalize
    /\ ing = NoIngest
    /\ tx = NoTx
    /\ race = NoRace
    /\ pg = NoPaging
    /\ tg = [pc |-> "idle", top |-> 0, tables |-> EmptyTables, latest_id |-> 0]

CheckpointStep ==
    UNCHANGED <<db, pc, run, now, llm, last, ctx, dg, gp, ex, cache, nu, ing, tx, race,
                pg, raws>>

\* the channel gets new messages
PostMessages ==
    /\ tg # NoCheckpoint
    /\ \E n \in PostSizes :
           /\ tg.top + n <= MaxMessageId
           /\ tg' = [tg EXCEPT !.top = @ + n]
    /\ CheckpointStep

\* fetch_new_stories: "latest_id = await get_latest_message_id(channel)"
LatestId ==
    /\ tg # NoCheckpoint
    /\ tg.pc = "idle"
    /\ tg' = [tg EXCEPT !.pc = "fetch",
                        !.latest_id = get_latest_message_id(tg.tables, "c1")]
    /\ CheckpointStep

\* fetch_new_stories: get_channel_messages, then save_messages "if messages"
FetchNewStories ==
    /\ tg # NoCheckpoint
    /\ tg.pc = "fetch"
    /\ LET messages == get_channel_messages(tg.top, tg.latest_id)
       IN tg' = [tg EXCEPT
                    !.pc = "idle",
                    !.latest_id = 0,
                    !.tables = IF messages # <<>>
                               THEN save_messages(tg.tables, "c1", messages, 1)
                               ELSE @]
    /\ CheckpointStep

NextCheckpoint ==
    \/ PostMessages
    \/ LatestId
    \/ FetchNewStories

SpecCheckpoint == InitCheckpoint /\ [][NextCheckpoint]_vars

\* ===================================================================== claims
RunningOverProcessed == pc # "idle" /\ run.all_processed

\* C1: while a run without force_regenerate goes over a source whose raw
\* items all had a ProcessedItem when it started, no step creates a
\* ProcessedItem, a tag relation or an entity relation, and no completion
\* request is made.
C1_NoForceRerunCreatesNothing ==
    [][(RunningOverProcessed /\ ~run.force) =>
          /\ db'.processed = db.processed
          /\ db'.tagRel = db.tagRel
          /\ db'.entRel = db.entRel
          /\ llm'.requests = llm.requests]_vars

\* a run without force_regenerate has gone over an all-processed source and
\* has ended at the empty batch
C1_Witness ==
    /\ run.outcome = "finished" /\ ~run.force /\ run.all_processed
    /\ \E p \in db.processed : p.related_item_type = run.source

\* the rows a persisted analysis stands for
ExpectedTagRel(item_id, analysis) ==
    {[item_id |-> item_id, tag |-> t.name, relation_value |-> t.score] :
         t \in Range(tag_dict(analysis.tags))}

ExpectedEntRel(item_id, analysis) ==
    {[item_id |-> item_id, name |-> e.name, type |-> e.type,
      relation_value |-> e.score, context |-> e.context] :
         e \in Range(analysis.entities)}

\* C2: in a force_regenerate run over a source whose raw items all had a
\* ProcessedItem, every story the run has analysed keeps its one
\* ProcessedItem, and the item's tag and entity relations are exactly the
\* newly computed ones, one row per (item, tag).
C2_ForceRerunReplaces ==
    (run.force /\ run.all_processed /\ last.status \in {"persisted", "aborted"}) =>
        \E p \in db.processed :
            /\ ProcessedOf(db, last.item) = {p}
            /\ {r \in db.tagRel : r.item_id = p.id} = ExpectedTagRel(p.id, last.analysis)
            /\ {r \in db.entRel : r.item_id = p.id} = ExpectedEntRel(p.id, last.analysis)
            /\ \A r1, r2 \in db.tagRel :
                   (r1.item_id = r2.item_id /\ r1.tag = r2.tag) => r1 = r2

\* C3: at most one ProcessedItem per (related_item_type, related_item_id).
C3_OneProcessedItemPerRawItem ==
    \A p, q \in db.processed :
        (p.related_item_type = q.related_item_type /\ p.related_item_id = q.related_item_id)
            => p = q

\* a force_regenerate run has persisted again a story that an earlier run
\* had persisted
C3_Witness ==
    /\ run.force /\ last.status = "persisted" /\ now = 2
    /\ \E p \in db.processed :
           /\ p.related_item_type = ItemType(last.item)
           /\ p.related_item_id = ItemId(last.item)
           /\ p.id = 1 /\ p.created_at = 2

\* C8: every ProcessedItem in the database has a tag relation to every
\* required tag.
C8_RequiredTagsOnEveryItem ==
    \A p \in db.processed : \A k \in 1..Len(REQUIRED_TAGS) :
        \E r \in db.tagRel : r.item_id = p.id /\ r.tag = REQUIRED_TAGS[k]

\* C9: a completion that is no YAML gives the fixed error summary, the three
\* required tags at 0.5 and no entities, nothing is raised, the story is
\* persisted and the loop goes on.
C9_UnparsableYaml ==
    last.kind = "yaml_error" =>
        /\ last.analysis.raised = None
        /\ last.analysis.summary = "Error: Invalid response format"
        /\ last.analysis.tags = <<[name |-> "machine learning", score |-> 50],
                                  [name |-> "generative ai", score |-> 50],
                                  [name |-> "cybersecurity", score |-> 50]>>
        /\ last.analysis.entities = <<>>
        /\ last.status = "persisted"
        /\ run.outcome # "aborted"

\* the loop has persisted a story whose completion was no YAML
C9_Witness ==
    /\ last.kind = "yaml_error" /\ last.status = "persisted"
    /\ \E p \in ProcessedOf(db, last.item) : p.summary = "Error: Invalid response format"

\* the entity a response may give that the specification calls valid
EntityValid(e) ==
    /\ e.name # None /\ e.type # None /\ e.score.kind # "none" /\ e.context # None
    /\ e.type \in {"company", "product", "person", "framework"}
    /\ e.score.kind = "num" /\ 0 <= e.score.val /\ e.score.val <= 100

\* C10: an entity of the response of a persisted story has an
\* EntityRelation if and only if it has name, type, score and context, a
\* type of the fixed vocabulary and a numeric score within [0, 1].
C10_EntityPersistedIffValid ==
    (pc = "persisted" /\ last.kind = "document") =>
        \A k \in 1..Len(last.completion.entities) :
            LET e == last.completion.entities[k]
            IN EntityValid(e) <=>
                   \E r \in db.entRel : r.name = e.name /\ r.type = e.type

\* ---------------------------------------------------- the context budgeter
\* the budget of the call
Budget == MAX_CONTEXT_TOKENS - ctx.prompt_tokens

\* every story of the call as one block, at full content or as summary
BlocksOf(use_summary) ==
    [i \in 1..Len(ctx.stories) |->
        format_story_context(ctx.stories[i], i, use_summary, ctx.variant)]

RECURSIVE SumLen(_, _)
SumLen(parts, k) == IF k > Len(parts) THEN 0 ELSE parts[k].len + SumLen(parts, k + 1)

\* the length of "\n".join(parts)
JoinedLen(parts) == IF Len(parts) = 0 THEN 0 ELSE SumLen(parts, 1) + Len(parts) - 1

\* the estimate of the string that "\n".join(parts) gives
JoinedTokens(parts) == JoinedLen(parts) \div 4

\* the block of story i was replaced by its summary form
Degraded(i) == ctx.context_parts[i].mode = "Summary" /\ ctx.stories[i].content > 0

\* C4 as stated: when the full-content blocks exceed the budget, so that the
\* degrade pass runs, and the all-summary context fits, the estimate of the
\* returned string is at most the budget.
C4_ReturnedStringWithinBudget ==
    (/\ ctx.pc = "returned"
     /\ SumTokens(BlocksOf(FALSE), 1) > Budget
     /\ JoinedTokens(BlocksOf(TRUE)) <= Budget)
        => JoinedTokens(ctx.context_parts) <= Budget

\* C4, amended: when the sum of the estimates of the full-content blocks
\* exceeds the budget and the sum of the estimates of the summary blocks
\* fits, the sum of the estimates of the returned blocks is at most the
\* budget.
C4_ReturnedBlocksWithinBudget ==
    (/\ ctx.pc = "returned"
     /\ SumTokens(BlocksOf(FALSE), 1) > Budget
     /\ SumTokens(BlocksOf(TRUE), 1) <= Budget)
        => SumTokens(ctx.context_parts, 1) <= Budget

\* a call whose full-content blocks exceeded the budget has returned with
\* one block degraded and another still at full content
C4_Witness ==
    /\ ctx.pc = "returned"
    /\ SumTokens(BlocksOf(FALSE), 1) > Budget
    /\ SumTokens(BlocksOf(TRUE), 1) <= Budget
    /\ \E i, j \in 1..Len(ctx.stories) :
           Degraded(i) /\ ctx.context_parts[j].mode = "Content"

\* C5: during and after the degrade pass, no story whose block was replaced
\* by its summary has strictly shorter content than a story still at full
\* content.
C5_LargestDegradedFirst ==
    ctx.pc \in {"degrade", "returned"} =>
        \A i, j \in 1..Len(ctx.stories) :
            (Degraded(i) /\ ctx.context_parts[j].mode = "Content")
                => ctx.stories[i].content >= ctx.stories[j].content

\* the fixture: contents of 500, 1000 and 100 characters and a budget that
\* one degradation meets; only the 1000-character story is degraded
C5_Witness ==
    /\ ctx.pc = "returned"
    /\ Len(ctx.stories) = 3
    /\ ctx.stories[1].content = 500
    /\ ctx.stories[2].content = 1000
    /\ ctx.stories[3].content = 100
    /\ ctx.context_parts[1].mode = "Content"
    /\ ctx.context_parts[2].mode = "Summary"
    /\ ctx.context_parts[3].mode = "Content"

\* C6: a call whose full-content blocks exceed the budget and whose summary
\* blocks still exceed it returns, raises nothing and leaves no story at
\* full content.
C6_AllDegradedWhenOverBudget ==
    (/\ ctx.pc \in {"returned", "raised"}
     /\ SumTokens(BlocksOf(FALSE), 1) > Budget
     /\ SumTokens(BlocksOf(TRUE), 1) > Budget)
        => /\ ctx.pc = "returned"
           /\ \A i \in 1..Len(ctx.stories) : ctx.context_parts[i].mode = "Summary"

Qualifying ==
    {p \in db.processed :
        /\ dg.start_date <= p.created_at /\ p.created_at < dg.end_date
        /\ \E r \in db.tagRel : /\ r.item_id = p.id
                               /\ r.tag \in RELEVANT_TAGS
                               /\ r.relation_value >= 30}

\* the ids of the stories the run has selected
SelectedIds == {dg.stories[k].id : k \in 1..Len(dg.stories)}

\* the rows of digest_stories that link digest d
LinksOf(d) == {l \in dg.digest_stories : l.digest_id = d.id}

\* main has passed the selection
DigestSelected == dg.pc # "main" /\ dg.outcome # "FileNotFoundError"

\* C11: a digest generation over a range without qualifying items makes no
\* completion request, writes no file and leaves no Digest, DigestStory or
\* Prompt row.
C11_NoQualifyingItemsNoEffect ==
    Qualifying = {} =>
        /\ llm.requests = 0
        /\ dg.files = {}
        /\ dg.digests = {} /\ dg.digest_stories = {} /\ dg.session = EmptySession
        /\ dg.prompts = <<>>

\* C12: every persisted digest has exactly one DigestStory per ProcessedItem
\* the run selected, and no other.
C12_LinksMatchSelection ==
    \A d \in dg.digests :
        /\ {l.processed_item_id : l \in LinksOf(d)} = SelectedIds
        /\ SelectedIds = {p.id : p \in relevant_rows(db, dg.start_date, dg.end_date, 30)}
        /\ Cardinality(LinksOf(d)) = Cardinality(SelectedIds)

\* a digest over two selected stories has been saved
C12_Witness ==
    /\ dg.outcome = "saved"
    /\ Len(dg.stories) = 2
    /\ \E d \in dg.digests : Cardinality(LinksOf(d)) = 2

\* C13: in every committed state, also after a failure, a Digest row has a
\* DigestStory for each story of its run; a run that failed has committed
\* neither.
C13_DigestCommittedWithLinks ==
    /\ \A d \in dg.digests :
           \A k \in 1..Len(dg.stories) :
               \E l \in dg.digest_stories :
                   l.digest_id = d.id /\ l.processed_item_id = dg.stories[k].id
    /\ dg.pc = "raised" => (dg.digests = {} /\ dg.digest_stories = {})
    /\ dg.digests = {} => dg.digest_stories = {}

\* the commit of the Digest and its links has failed after the file was
\* written
C13_Witness ==
    /\ dg.pc = "raised" /\ dg.outcome = "SQLAlchemyError"
    /\ dg.files # {} /\ Len(dg.stories) = 2
    /\ dg.digests = {}

\* C14: the selection over [start, end) is exactly the qualifying
\* ProcessedItems, each once.
C14_SelectionIsHalfOpenRange ==
    DigestSelected =>
        (dg.outcome # "no_stories" =>
            /\ SelectedIds = {p.id : p \in Qualifying}
            /\ Len(dg.stories) = Cardinality(SelectedIds))
        /\ (dg.outcome = "no_stories" => Qualifying = {})

\* ------------------------------------------------- GenAIProcessor.process
\* the rows the call has added to the prompts table
NewPrompts == SelectSeq(gp.prompts, LAMBDA row : row.prompt_text # <<"old">>)

\* C15: a call makes at most max_retries + 1 completion requests, each
\* further request follows a validation error, the validation error of the
\* last allowed attempt is raised as ValueError, and a RAW call meets no
\* validation error and returns after exactly one request.
C15_RetryBudget ==
    /\ gp.requests <= gp.max_retries + 1
    /\ gp.pc = "request" => gp.requests = gp.invalid
    /\ gp.invalid = gp.max_retries + 1 => (gp.pc = "raised" /\ gp.raised = "ValueError")
    /\ gp.raised = "ValueError" => gp.invalid = gp.max_retries + 1
    /\ gp.response_format = "raw" =>
           /\ gp.invalid = 0
           /\ gp.pc = "returned" => gp.requests = 1

\* with the default of two retries the third attempt has failed validation
\* and the ValueError is raised
C15_Witness ==
    /\ gp.pc = "raised" /\ gp.raised = "ValueError"
    /\ gp.max_retries = 2 /\ gp.requests = 3

\* C16: the prompt of every retry is the corrective text with the
\* description of the latest validation error and the caller's prompt, and
\* nothing of an earlier corrective prompt.
C16_CorrectivePromptFlat ==
    (gp.pc = "request" /\ gp.retries > 0) =>
        /\ gp.last_error =
               error_description(_clean_code_block(gp.last.text), gp.response_format)
        /\ gp.prompt =
               <<"Your previous response was not in valid", gp.response_format,
                 "format.", "Error:">>
               \o gp.last_error
               \o <<"\n", "Please fix the format issues and provide a valid response.",
                    "\n", "Original prompt:", "P">>

\* the second retry of a JSON call, after a response whose json hint was
\* left in the text
C16_Witness ==
    /\ gp.pc = "request" /\ gp.retries = 2
    /\ gp.last_error = <<"Invalid", "json", "format:", "json">>

C18_ApiErrorNotRetried ==
    /\ []((gp.requests > 0 /\ gp.last.kind # "text") =>
              (gp.pc = "raised" /\ gp.raised = gp.last.kind))
    /\ [][gp.pc = "raised" => gp'.requests = gp.requests]_vars

\* the third completion request of a call has met a rate-limit error
C18_Witness ==
    /\ gp.pc = "raised" /\ gp.raised = "RateLimitError"
    /\ gp.requests = 3 /\ gp.invalid = 2

\* C19: a first response that begins with the fence marker, hinted or not,
\* and holds a document well-formed in the requested format meets no
\* validation error.
C19_FencedDocumentParsedFirst ==
    (/\ gp.requests = 1
     /\ gp.last.kind = "text"
     /\ Head(gp.last.text) = FENCE
     /\ \/ gp.response_format = "yaml"
           /\ \E k \in 1..Len(gp.last.text) : gp.last.text[k] \in {"yaml_doc", "json_doc"}
        \/ gp.response_format = "json"
           /\ \E k \in 1..Len(gp.last.text) : gp.last.text[k] = "json_doc")
        => gp.invalid = 0

\* ------------------------------------------ DiffBotExtractor.extract_content
\* C20: a call makes at most max_retries requests; every request but the
\* last was answered with 429 and was followed by one sleep, the first of
\* initial_delay and each next of twice the one before; a request answered
\* with another HTTP error status is the last, with a null result; and
\* max_retries answers of 429 end the call with a null result.
C20_RetryOnlyAfter429WithBackoff ==
    LET n == Len(ex.responses)
        done == ex.pc \in {"returned", "raised"}
    IN /\ n <= ex.max_retries
       /\ \A k \in 1..(n - 1) : ex.responses[k] = 429
       /\ Len(ex.sleeps) = IF done /\ n > 0 THEN n - 1 ELSE n
       /\ \A k \in 1..Len(ex.sleeps) :
              ex.sleeps[k] = IF k = 1 THEN ex.initial_delay ELSE 2 * ex.sleeps[k - 1]
       /\ (n > 0 /\ ex.responses[n] \in HTTPErrorStatuses \ {429}) =>
              (ex.pc = "returned" /\ ex.result = None)
       /\ (n > 0 /\ n = ex.max_retries /\ ex.responses[n] = 429) =>
              (ex.pc = "returned" /\ ex.result = None)
       /\ (n > 0 /\ ex.responses[n] = 429 /\ n < ex.max_retries) => ex.pc = "request"

\* the default three attempts all answered with 429: two sleeps, of the
\* initial delay and of twice that, and a null result
C20_Witness ==
    /\ ex.pc = "returned" /\ ex.result = None
    /\ ex.max_retries = 3 /\ ex.responses = <<429, 429, 429>>
    /\ ex.sleeps = <<ex.initial_delay, 2 * ex.initial_delay>>

\* ------------------------------------------------------ the content cache
\* the rows with content that the table held for url before the latest
\* resolution
HitsBefore(url) ==
    {r \in cache.last.before : r.url = url /\ r.target_content # None}

\* the URLs the latest resolution looked up in the cache
UrlsMet ==
    IF cache.last.story.type = "email_story" /\ cache.last.own # None
    THEN {}
    ELSE Range(cache.last.story.urls)

\* C21: when the cache holds a row with content for a URL of the story, the
\* resolution makes no extraction request for that URL, and a story whose
\* content is resolved through the cache is given the cached content.
C21_CacheHitNoExtraction ==
    cache.steps > 0 =>
        \A url \in Range(cache.last.story.urls) :
            HitsBefore(url) # {} =>
                /\ url \notin Range(cache.last.requests)
                /\ url \in UrlsMet =>
                       \E r \in HitsBefore(url) :
                           r.target_content \in Range(cache.last.used)

\* an email story without content of its own is resolved from the cached
\* row of its URL, with no request
C21_Witness ==
    /\ cache.steps > 0
    /\ cache.last.story.type = "email_story"
    /\ cache.last.own = None
    /\ HitsBefore("u1") # {}
    /\ cache.last.requests = <<>>
    /\ cache.last.used = <<"cached">>
    /\ cache.target_content[cache.last.story.id] = "cached"

\* C22: an extraction that returns nothing leaves the table without a row
\* for the URL, and a resolution that looks up a URL the table has no row
\* for asks for its extraction, after an earlier failure as well.
C22_FailedExtractionNotCached ==
    cache.steps > 0 =>
        /\ \A url \in Range(cache.last.requests) :
               (\A k \in 1..Len(cache.last.requests) :
                    cache.last.requests[k] = url => cache.last.results[k] = None)
               => {r \in cache.url_contents : r.url = url}
                      = {r \in cache.last.before : r.url = url}
        /\ \A url \in UrlsMet :
               {r \in cache.last.before : r.url = url} = {}
                   => url \in Range(cache.last.requests)

\* a URL whose extraction failed in an earlier resolution has no row and is
\* extracted again
C22_Witness ==
    /\ cache.steps > 1
    /\ \E url \in cache.last.failed_before :
           /\ {r \in cache.last.before : r.url = url} = {}
           /\ url \in Range(cache.last.requests)

C24_NormalizeIdempotent ==
    (nu.pc = "again" /\ nu.navigation = "same") => nu.again = nu.once

DefaultPort(scheme) == IF scheme = "http" THEN ":80" ELSE ":443"

\* the URLs that differ from c in one leading www. prefix, in the scheme's
\* default port being written or not, or in one tracking parameter
Variations(c) ==
    {[c EXCEPT !.www = c.www + 1, !.prefix = "www."] : x \in {y \in {1} : c.www < MaxWww}}
    \cup {[c EXCEPT !.port = DefaultPort(c.scheme)] : x \in {y \in {1} : c.port = ""}}
    \cup {[c EXCEPT !.port = ""] : x \in {y \in {1} : c.port = DefaultPort(c.scheme)}}
    \cup {[c EXCEPT !.query = Append(@, "utm_source=x")]}
    \cup {[c EXCEPT !.query = <<"fbclid=y">> \o @]}

\* C25: with no redirect, a URL and each URL that differs from it only in a
\* leading www. prefix, the default port or a tracking parameter normalize
\* to the same text, and a port that is not the scheme's default port is in
\* the result as it was written.
C25_VariationsAgreeAndOtherPortsKept ==
    (nu.pc = "once" /\ nu.navigation = "same" /\ ~nu.wrapped) =>
        /\ \A v \in Variations(nu.c) :
               normalize_url(UrlText(v), "same").value = nu.once
        /\ nu.c.port \notin {"", DefaultPort(nu.c.scheme)} =>
               nu.c.port \in Range(nu.once)

\* C26: when the navigation times out, fails, or brings no OK response,
\* normalize_url raises nothing and returns the canonical form of the URL
\* it gave to get_final_url.
C26_RedirectFailureFallsBack ==
    /\ nu.raised = None
    /\ (nu.pc = "once"
        /\ nu.navigation \in {"not_ok", "no_response", "TimeoutError", "PlaywrightError"})
       => nu.once = canonical(unwrap_tldr(nu.url))

\* a timeout while following a tracking URL: the result is the canonical
\* form of the embedded target
C26_Witness ==
    /\ nu.pc = "once" /\ nu.navigation = "TimeoutError"
    /\ nu.wrapped /\ nu.c.www = 1 /\ nu.c.host = "Example.COM"
    /\ nu.c.path = <<"/a", "/", "/">> /\ nu.c.port = ""
    /\ nu.once = <<nu.c.scheme, "://", "example.com", "/a">>

\* ---------------------------------------------- errors during the analysis
\* C27: after a connection error or timeout in the analysis of a story, the
\* run has created or replaced no ProcessedItem for the story, and with it
\* no relation, and goes on with the batch.
C27_NetworkErrorSkipsItem ==
    last.kind = "connection_error" =>
        /\ \A p \in ProcessedOf(db, last.item) : p.created_at # now
        /\ pc = "loop"
        /\ run.outcome = "running"

\* C28: the step that leaves a story for want of content makes no
\* completion request, creates no ProcessedItem and no relation, raises
\* nothing and moves the run to the next story of the batch.
C28_NoContentSkipsItem ==
    /\ [](last.status = "skipped_empty" =>
              /\ ProcessedOf(db, last.item) = {}
              /\ run.outcome # "aborted")
    /\ [][last'.status = "skipped_empty" /\ last' # last =>
              /\ pc' = "loop"
              /\ run'.outcome = "running"
              /\ llm' = llm
              /\ db'.processed = db.processed
              /\ db'.tagRel = db.tagRel /\ db'.entRel = db.entRel
              /\ run'.pos = run.pos + 1
              /\ run'.stories = run.stories]_vars

\* the first email story of the batch was left without content and without
\* a ProcessedItem, and the second one has been analysed and persisted
C28_Witness ==
    /\ run.source = "email_story" /\ now = 1 /\ run.pos = 3
    /\ ProcessedOf(db, run.stories[1]) = {}
    /\ last.item = run.stories[2] /\ last.status = "persisted"
    /\ llm.requests = 1

\* C29: after a document of another shape than asked for, the run is still
\* in its batch: the error was handled for the story and the next story
\* is processed.
C29_DataErrorsHandledPerItem ==
    last.kind \in ShapeKinds =>
        /\ pc = "loop"
        /\ run.outcome = "running"
        /\ last.status = "persisted"

\* the fetched items whose key the tables t hold
StoredIn(t, fetch) ==
    IF fetch.source = "hacker_news"
    THEN {i \in Range(fetch.items) : \E r \in t.stories : r.id = i}
    ELSE IF fetch.source = "telegram"
    THEN {i \in Range(fetch.items) :
              \E r \in t.telegram_stories :
                  r.channel_id = fetch.channel /\ r.message_id = i}
    ELSE {i \in Range(fetch.items) : \E r \in t.digest_emails : r.message_id = i}

RowsOf(t) ==
    <<t.stories, t.telegram_stories, t.digest_emails, t.digest_links, t.email_stories>>

\* C30: ingestion is safe to re-run.  No fetcher run fails on a unique key;
\* no table holds two rows for the same HN item id, Gmail message id,
\* Telegram channel and message id, link URL within an email, or email
\* story URL; every item a run could store has exactly one row after it;
\* and a run all of whose items were stored before it leaves every table
\* as it was.
C30_IngestionSafeToRerun ==
    LET t == ing.tables
    IN ing.pc # None =>
       /\ ing.pc # "raised"
       /\ \A a, b \in t.stories : a.id = b.id => a = b
       /\ \A a, b \in t.telegram_stories :
              a.channel_id = b.channel_id /\ a.message_id = b.message_id => a = b
       /\ \A a, b \in t.digest_emails : a.message_id = b.message_id => a = b
       /\ \A a, b \in t.digest_links : a.email_id = b.email_id /\ a.url = b.url => a = b
       /\ \A a, b \in t.email_stories : a.url = b.url => a = b
       /\ \A l \in t.digest_links :
              /\ \E e \in t.digest_emails : e.id = l.email_id
              /\ \E st \in t.email_stories : st.id = l.story_id /\ st.url = l.url
       /\ ing.runs > 0 =>
              /\ ing.fetch.stored \subseteq StoredIn(t, ing.fetch)
              /\ StoredIn(ing.before, ing.fetch) \subseteq StoredIn(t, ing.fetch)
              /\ Range(ing.fetch.items) \subseteq StoredIn(ing.before, ing.fetch)
                     => RowsOf(t) = RowsOf(ing.before)

\* a second run of the email fetcher over two stored emails that share a
\* link URL: nothing is added, and the shared URL has one story and a link
\* of each email
C30_Witness ==
    /\ ing.pc = "idle"
    /\ ing.runs = 2
    /\ ing.fetch.source = "gmail"
    /\ Cardinality(Range(ing.fetch.items)) = 2
    /\ Range(ing.fetch.items) \subseteq StoredIn(ing.before, ing.fetch)
    /\ RowsOf(ing.tables) = RowsOf(ing.before)
    /\ Cardinality(ing.tables.digest_links) = 3
    /\ Cardinality(ing.tables.email_stories) = 2
    /\ \E st \in ing.tables.email_stories :
           Cardinality({l \in ing.tables.digest_links : l.story_id = st.id}) = 2

\* the ProcessedItem rows of the story a reader sees, with their relations
TxVisible(d) ==
    {[item |-> p,
      tagRel |-> {r \in d.tagRel : r.item_id = p.id},
      entRel |-> {r \in d.entRel : r.item_id = p.id}] : p \in ProcessedOf(d, TxStory)}

\* C31: the ProcessedItem and its relations are written in one transaction.
\* Every committed state shows the story as it was before the item was
\* handled, or with the new ProcessedItem and all of its new tag and
\* entity relations; and the handling of one item commits at most once.
C31_ItemAndRelationsOneTransaction ==
    tx.pc # None =>
        /\ tx.commits <= 1
        /\ \A v \in TxVisible(tx.st.comm) :
               \/ v \in TxVisible(tx.before)
               \/ /\ v.item.created_at = TxNow
                  /\ v.item.summary = tx.analysis.summary
                  /\ v.tagRel = ExpectedTagRel(v.item.id, tx.analysis)
                  /\ v.entRel = ExpectedEntRel(v.item.id, tx.analysis)

\* C32: concurrent get-or-create of one new name.  Under every
\* interleaving no run is ended by an exception, every finished call has
\* returned a row of its name, and the tables hold one Tag per name and one
\* Entity per (name, type).
C32_ConcurrentGetOrCreate ==
    race # NoRace =>
        /\ \A r \in Runs : race.pc[r] # "raised"
        /\ \A r \in Runs : \A j \in 1..Len(race.returned[r]) :
               /\ race.returned[r][j] \in race.rows
               /\ race.returned[r][j].name = race.calls[r][j].name
        /\ \A a, b \in race.rows :
               a.table = b.table /\ a.name = b.name /\ a.type = b.type => a = b

\* the raw items with usable content that have no ProcessedItem
LeftOver == {i \in 1..pg.n : i \notin pg.empty /\ \A p \in pg.rows : p.item # i}

\* C33: a run without force_regenerate visits every raw item that had no
\* ProcessedItem when it started, for tables of more than one page too:
\* when the run has ended, every such item with usable content has a
\* ProcessedItem.
C33_RunVisitsEveryUnprocessedItem ==
    pg.pc = "finished" /\ ~pg.force => LeftOver = {}

\* C34: after a crash that left some items committed, the restarted run
\* without force_regenerate analyses no item that was committed (no second
\* completion request, no second ProcessedItem for it), and when it has
\* ended the items that remained have been processed.
C34_RestartResumes ==
    pg.pc # None /\ pg.crashed /\ pg.runs = 2 /\ pg.before # {} =>
        /\ pg.analysed \cap pg.before = {}
        /\ \A a, b \in pg.rows : a.item = b.item => a = b
        /\ pg.pc = "finished" => LeftOver = {}

\* C36: every run ends.  A run that has started reaches the empty page that
\* ends it, in both modes and also when items are skipped as empty and stay
\* without ProcessedItem; the offset only ever grows, by batch_size a page.
C36_EveryRunTerminates ==
    /\ (pg.pc \in {"select", "loop"}) ~> (pg.pc = "finished")
    /\ [][pg.pc = "loop" /\ pg'.pc = "select" => pg'.offset = pg.offset + batch_size]_vars
    /\ [][pg.pc = "select" /\ pg'.pc = "finished" => Page(pg) = <<>>]_vars

\* a second run, without force_regenerate, has met only items that are
\* skipped as empty again, moved past their page and ended
C36_Witness ==
    /\ pg.pc = "finished"
    /\ pg.runs = 2
    /\ ~pg.force
    /\ pg.offset = batch_size
    /\ pg.analysed = {}
    /\ pg.empty # {}
    /\ \A i \in pg.empty : ~HasProcessedItem(pg.rows, i)

\* the blocks after the first j stories of the descending order have been
\* replaced by their summary form
BlocksAfter(j) ==
    [i \in 1..Len(ctx.stories) |->
        format_story_context(ctx.stories[i], i,
                             \E pos \in 1..j : ctx.story_sizes[pos][1] = i,
                             ctx.variant)]

\* C35: prepare_context degrades no more stories than needed.  A call whose
\* full-content total is within the budget returns every block at full
\* content; otherwise every replacement was made while the running total
\* was above the budget, the pass stopped at the first total at or under
\* it, and every story later in the descending order is returned as the
\* first pass wrote it.
C35_NoMoreDegradedThanNeeded ==
    ctx.pc = "returned" =>
        IF SumTokens(BlocksOf(FALSE), 1) <= Budget
        THEN ctx.context_parts = BlocksOf(FALSE)
        ELSE LET d == ctx.k - 1
             IN /\ \A j \in 0..(d - 1) : SumTokens(BlocksAfter(j), 1) > Budget
                /\ d < Len(ctx.stories) => SumTokens(BlocksAfter(d), 1) <= Budget
                /\ ctx.context_parts = BlocksAfter(d)

\* a call over three stories that is over budget at full content and
\* within it after one replacement: two stories stay at full content
C35_Witness ==
    /\ ctx.pc = "returned"
    /\ Len(ctx.stories) = 3
    /\ SumTokens(BlocksOf(FALSE), 1) > Budget
    /\ ctx.k = 2
    /\ Cardinality({i \in 1..3 : Degraded(i)}) = 1
    /\ Cardinality({i \in 1..3 : ctx.context_parts[i].mode = "Content"}) = 2

\* the columns of the raw rows other than the extracted content of an
\* email story and the urls of a Telegram story
FixedColumns(rows) ==
    <<rows.story,
      [rows.email_story EXCEPT !.target_content = None],
      [rows.telegram_story EXCEPT !.urls = NullList]>>

\* C37 as stated: an enrichment step changes no column of a raw row except
\* the attached extracted content; the urls list of a Telegram story is
\* among the columns that stay.
C37_OnlyExtractedContentAttached ==
    [][raws # NoRaw =>
          /\ FixedColumns(raws'.rows) = FixedColumns(raws.rows)
          /\ raws'.rows.telegram_story.urls = raws.rows.telegram_story.urls]_vars

\* C37: an enrichment step changes no title, url, body content or time
\* of a raw row.  It attaches extracted content to an email story that had
\* none, and it fills the urls column of a Telegram story whose urls were
\* null or empty with the URLs found in the message.
C37_OnlyContentAndUrlsAttached ==
    [][raws # NoRaw =>
          /\ FixedColumns(raws'.rows) = FixedColumns(raws.rows)
          /\ raws'.rows.email_story.target_content # raws.rows.email_story.target_content
                 => /\ raws.rows.email_story.target_content = None
                    /\ raws'.rows.email_story.target_content \in {"cached", "extracted"}
          /\ raws'.rows.telegram_story.urls # raws.rows.telegram_story.urls
                 => /\ raws.rows.telegram_story.urls.list = <<>>
                    /\ ~raws'.rows.telegram_story.urls.null
                    /\ \A k \in 1..Len(raws'.rows.telegram_story.urls.list) :
                           /\ IsUrl(raws'.rows.telegram_story.urls.list[k])
                           /\ raws'.rows.telegram_story.urls.list[k]
                                  \in Range(raws.rows.telegram_story.content)
                    /\ raws'.source = "telegram_story"]_vars

\* the Telegram pipeline has filled the urls of a story and the email
\* pipeline has attached content to one
C37_Witness ==
    /\ raws # NoRaw
    /\ raws.steps = 2
    /\ raws.rows.email_story.target_content = "extracted"
    /\ raws.rows.telegram_story.urls.list = <<"http://u1", "http://u2">>

\* C38: in a force_regenerate run, a story that already has a ProcessedItem
\* and whose new analysis is skipped as empty input keeps its ProcessedItem
\* (summary, created_at) and all its tag and entity relations: the step
\* that skips it changes no row of the three tables and makes no
\* completion request.
C38_SkippedEmptyKeepsExisting ==
    [][(/\ pc = "loop"
        /\ run.force
        /\ run'.pos = run.pos + 1
        /\ last'.status = "skipped_empty")
           => /\ db'.processed = db.processed
              /\ db'.tagRel = db.tagRel
              /\ db'.entRel = db.entRel
              /\ llm' = llm]_vars

\* a force_regenerate run has skipped, as empty, a story that has a
\* ProcessedItem with tag relations and an entity relation
C38_Witness ==
    /\ run.force
    /\ last.status = "skipped_empty"
    /\ \E p \in ProcessedOf(db, last.item) :
           /\ p.created_at < now
           /\ \E r \in db.tagRel : r.item_id = p.id
           /\ \E r \in db.entRel : r.item_id = p.id

\* the entities the analysis kept more than once
RepeatedEntities(analysis) ==
    {analysis.entities[j] : j \in {k \in 1..Len(analysis.entities) :
        \E m \in 1..Len(analysis.entities) :
            /\ m # k
            /\ analysis.entities[m].name = analysis.entities[k].name
            /\ analysis.entities[m].type = analysis.entities[k].type}}

\* C39: a story whose response lists one valid entity twice is persisted,
\* with one EntityRelation for the item and that entity, and the run does
\* not abort.
C39_RepeatedEntityPersistedOnce ==
    (/\ last.status \in {"persisted", "aborted"}
     /\ RepeatedEntities(last.analysis) # {})
        => /\ last.status = "persisted"
           /\ run.outcome # "aborted"
           /\ \E p \in ProcessedOf(db, last.item) :
                  \A e \in RepeatedEntities(last.analysis) :
                      Cardinality({r \in db.entRel :
                          r.item_id = p.id /\ r.name = e.name /\ r.type = e.type}) = 1

\* the message ids stored for the channel
StoredIds == {r.message_id : r \in tg.tables.telegram_stories}

\* C40: the checkpoint a fetch reads is the numerically greatest message id
\* stored for the channel, 0 when none is stored; and a fetch made while
\* the channel has messages newer than every stored one stores at least one
\* of them.
C40_CheckpointIsGreatestId ==
    /\ []((tg # NoCheckpoint /\ tg.pc = "fetch") =>
             tg.latest_id = IF StoredIds = {} THEN 0 ELSE numeric_max(StoredIds))
    /\ [][(tg # NoCheckpoint /\ tg.pc = "fetch" /\ tg'.pc = "idle"
           /\ StoredIds # {} /\ tg.top > numeric_max(StoredIds))
              => \E r \in tg'.tables.telegram_stories :
                     r.message_id > numeric_max(StoredIds)]_vars

====
